---------------------------- MODULE Spec2Model ----------------------------
(***************************************************************************)
(* A model of the keyflare hot-key detection and mitigation engine:        *)
(*   - internal/algorithm: CountMinSketch and SpaceSaving (on top of Go's  *)
(*     container/heap),                                                    *)
(*   - internal/detector: hotKeyDetector,                                  *)
(*   - internal/policy: localCachePolicy.                                  *)
(* Keys are byte strings (sequences of byte values), so that the FNV-1a    *)
(* hash of the sketch is computed as the code computes it.  Counters are   *)
(* uint64 in the code; the amounts and totals of the model stay far below  *)
(* 2^64, so no counter wraps.  Times are whole ticks, TicksPerSecond to    *)
(* the second.                                                             *)
(***************************************************************************)
EXTENDS Integers, Sequences, FiniteSets, TLC

VARIABLES
    cms,        \* the CountMinSketch: [depth, width, matrix]
    ss,         \* the SpaceSaving: [capacity, items, heap, mem]
    det,        \* the hotKeyDetector: [config, lastDecay, decayInterval]
    lc,         \* the localCachePolicy: [config, cache, size]
    now,        \* the value time.Now() returns
    truth,      \* ghost: per key, what was really added / set
    ret,        \* the last call and what it returned
    mgr,        \* the policy manager: [policy, patternRegexps, whitelistKeys]
    ks,         \* the keySplittingPolicy: [config]
    eng,        \* globalInstance: None (nil) or the KeyFlare
    hist,       \* the hotKeyHistory: [snapshots, maxSize, keyMeta]
    wr,         \* the Redis wrapper's world: [client, async, calls, panicked]
    gets,       \* per thread, the handleGet call it is in: [pc, key, item]
    srv         \* the metricServer: [detector, ticker, stopChan, tasks, caller]

vars == <<cms, ss, det, lc, now, truth, ret, mgr, ks, eng, hist, wr, gets, srv>>

\* the components the sketch, detector and cache operations do not touch
restVars == <<mgr, ks, eng, hist, wr, gets, srv>>
\* the components the manager, engine and history operations do not touch
coreVars == <<cms, ss, det, lc>>

(***************************************************************************)
(* Bounds of the model.                                                    *)
(***************************************************************************)
Depth == 2          \* rows of a stand-alone sketch
Width == 4          \* columns of a sketch
MaxCount == 2       \* largest amount of one Add / Increment
MaxTotal == 6       \* largest sum of the amounts added to a sketch or a top-K
MaxCapacity == 2    \* largest capacity of a Space-Saving structure / a cache
SSMaxTotal == 4     \* the same, where the top-K is also read, decayed and cleared
DetMaxTotal == 3    \* largest sum of the amounts a detector is given
MaxTime == 2        \* the clock of a detector stops here
CacheMaxTime == 3   \* the clock of a cache stops here

\* "", "a", "b", "c"
Keys == { <<>>, <<97>>, <<98>>, <<99>> }
Counts == 1..MaxCount

None == [none |-> TRUE]

\* Go's integer division truncates toward zero.
GoDiv(a, b) == IF a >= 0 THEN a \div b ELSE -((-a) \div b)

\* Op applied to the value of x, which is worked out once
With(x, Op(_)) == CHOOSE out \in { Op(v) : v \in {x} } : TRUE

Min(S) == CHOOSE x \in S : \A y \in S : x <= y

RECURSIVE SumOver(_, _)
SumOver(f, S) ==
    IF S = {} THEN 0
    ELSE LET x == CHOOSE y \in S : TRUE IN f[x] + SumOver(f, S \ {x})

(***************************************************************************)
(* hash/fnv New32a, on 32-bit words kept as <<high 16 bits, low 16 bits>>. *)
(***************************************************************************)
RECURSIVE BitXor(_, _, _)
BitXor(a, b, n) ==
    IF n = 0 THEN 0
    ELSE ((a + b) % 2) + 2 * BitXor(a \div 2, b \div 2, n - 1)

\* offset basis 0x811C9DC5
FnvOffset == <<33052, 40389>>

\* h ^= b ; h *= 0x01000193 (mod 2^32)
FnvStep(h, b) ==
    LET lo == (h[2] \div 256) * 256 + BitXor(h[2] % 256, b, 8)
        hi == h[1]
    IN  << (hi * 403 + ((lo * 403) \div 65536) + (lo % 256) * 256) % 65536,
           (lo * 403) % 65536 >>

RECURSIVE FnvWrite(_, _)
FnvWrite(h, data) ==
    IF data = <<>> THEN h
    ELSE FnvWrite(FnvStep(h, Head(data)), Tail(data))

\* the closure every hashFuncs[i] holds: FNV-1a of data followed by the
\* four little-endian bytes of the seed
hashFunc(data, s) ==
    FnvWrite(FnvWrite(FnvOffset, data),
             << s % 256, (s \div 256) % 256, (s \div 65536) % 256, 0 >>)

\* hashFuncs[i](key, uint32(i)) % uint32(cms.width), for the 0-based row i
ColumnOf(key, i, width) ==
    LET h == hashFunc(key, i)
    IN  ((h[1] % width) * (65536 % width) + h[2]) % width

DetectorDepth == 5  \* ceil(ln(1 / 0.01)): detector.New passes delta = 0.01

\* ColumnOf, worked out once for the keys, rows and width of the model
ColumnTable ==
    [key \in Keys |-> [i \in 0..(Depth + DetectorDepth) |-> ColumnOf(key, i, Width)]]

Column(key, i, width) ==
    IF width = Width THEN ColumnTable[key][i] ELSE ColumnOf(key, i, width)

(***************************************************************************)
(* CountMinSketch.  Row i and column j of the code are matrix[i+1][j+1].   *)
(***************************************************************************)
NewCountMinSketch(depth, width) ==
    [ depth  |-> depth,
      width  |-> width,
      matrix |-> [i \in 1..depth |-> [j \in 1..width |-> 0]] ]

\* CmsAdd storing the amount instead of adding it
CmsAddAssign(c, key, count) ==
    [ c EXCEPT !.matrix =
        [i \in 1..c.depth |->
            [j \in 1..c.width |->
                IF j = Column(key, i - 1, c.width) + 1 THEN count ELSE c.matrix[i][j]]] ]

CmsAdd(c, key, count) ==
    [ c EXCEPT !.matrix =
        [i \in 1..c.depth |->
            [j \in 1..c.width |->
                IF j = Column(key, i - 1, c.width) + 1
                THEN c.matrix[i][j] + count
                ELSE c.matrix[i][j]]] ]

\* Estimate adding the rows up instead of taking their minimum
EstimateSum(c, key) ==
    SumOver([i \in 1..c.depth |-> c.matrix[i][Column(key, i - 1, c.width) + 1]], 1..c.depth)

Estimate(c, key) ==
    Min({ c.matrix[i][Column(key, i - 1, c.width) + 1] : i \in 1..c.depth })

CmsReset(c) ==
    [ c EXCEPT !.matrix = [i \in 1..c.depth |-> [j \in 1..c.width |-> 0]] ]

\* uint64(float64(x) * factor), the factor given as num/den
Scale(x, factor) == (x * factor[1]) \div factor[2]

CmsDecay(c, factor) ==
    [ c EXCEPT !.matrix =
        [i \in 1..c.depth |-> [j \in 1..c.width |-> Scale(c.matrix[i][j], factor)]] ]


(***************************************************************************)
(* container/heap over SpaceSavingHeap.  A heap value hv is                *)
(* [h |-> the slice of *Item, mem |-> the Items the pointers point at]:    *)
(* a pointer is an index of mem, and position i of the code is h[i+1].     *)
(***************************************************************************)
\* SpaceSavingHeap.Less
Less(hv, i, j) == hv.mem[hv.h[i + 1]].Count < hv.mem[hv.h[j + 1]].Count

\* SpaceSavingHeap.Swap: exchanges the pointers and writes both Index fields
Swap(hv, i, j) ==
    LET h2 == [hv.h EXCEPT ![i + 1] = hv.h[j + 1], ![j + 1] = hv.h[i + 1]]
        m1 == [hv.mem EXCEPT ![h2[i + 1]].Index = i]
    IN  [ h |-> h2, mem |-> [m1 EXCEPT ![h2[j + 1]].Index = j] ]

\* heap.up
RECURSIVE up(_, _)
up(hv0, j) ==
    With(hv0, LAMBDA hv :
        LET i == GoDiv(j - 1, 2)
        IN  IF i = j \/ ~Less(hv, j, i) THEN hv ELSE up(Swap(hv, i, j), i))

\* heap.down: the heap and the position the element ends at
RECURSIVE down(_, _, _)
down(hv0, i, n) ==
    With(hv0, LAMBDA hv :
        LET j1 == 2 * i + 1
        IN  IF j1 >= n \/ j1 < 0 THEN [hv |-> hv, i |-> i]
            ELSE LET j == IF j1 + 1 < n /\ Less(hv, j1 + 1, j1) THEN j1 + 1 ELSE j1
                 IN  IF ~Less(hv, j, i) THEN [hv |-> hv, i |-> i]
                     ELSE down(Swap(hv, i, j), j, n))

\* heap.Fix
Fix(hv, i) ==
    With(down(hv, i, Len(hv.h)), LAMBDA d : IF d.i > i THEN d.hv ELSE up(hv, i))

\* heap.Push of the pointer p: SpaceSavingHeap.Push, then up
HeapPush(hv, p) ==
    LET n == Len(hv.h)
    IN  up([ h |-> Append(hv.h, p), mem |-> [hv.mem EXCEPT ![p].Index = n] ], n)

\* heap.Pop: Swap(0, n), down(0, n), then SpaceSavingHeap.Pop
HeapPop(hv) ==
    LET n == Len(hv.h) - 1
    IN  With(down(Swap(hv, 0, n), 0, n).hv, LAMBDA d :
            [ hv   |-> [ h   |-> SubSeq(d.h, 1, n),
                         mem |-> [d.mem EXCEPT ![d.h[n + 1]].Index = -1] ],
              item |-> d.h[n + 1] ])

\* heap.Init
RECURSIVE HeapInitFrom(_, _)
HeapInitFrom(hv0, i) ==
    With(hv0, LAMBDA hv :
        IF i < 0 THEN hv ELSE HeapInitFrom(down(hv, i, Len(hv.h)).hv, i - 1))

HeapInit(hv) == HeapInitFrom(hv, GoDiv(Len(hv.h), 2) - 1)

(***************************************************************************)
(* SpaceSaving: [capacity, items, heap, mem].  items maps a key to its     *)
(* pointer, heap is the slice of pointers, mem holds the Items.            *)
(***************************************************************************)
NewSpaceSaving(capacity) ==
    [ capacity |-> capacity, items |-> <<>>, heap |-> <<>>, mem |-> <<>> ]

HeapOf(s) == [h |-> s.heap, mem |-> s.mem]

WithHeap(s, hv) == [s EXCEPT !.heap = hv.h, !.mem = hv.mem]

\* the key exists: item.Count += count; heap.Fix(&ss.heap, item.Index)
SSAddExisting(s, key, count) ==
    LET p  == s.items[key]
        m2 == [s.mem EXCEPT ![p].Count = @ + count]
    IN  WithHeap(s, Fix([h |-> s.heap, mem |-> m2], m2[p].Index))

\* below capacity: a new Item is pushed
SSAddNew(s, key, count) ==
    LET p  == Len(s.mem) + 1
        m2 == Append(s.mem, [Key |-> key, Count |-> count, Error |-> 0, Index |-> 0])
        hv == HeapPush([h |-> s.heap, mem |-> m2], p)
    IN  [ s EXCEPT !.items = [k \in DOMAIN s.items \cup {key} |->
                                 IF k = key THEN p ELSE s.items[k]],
                   !.heap = hv.h, !.mem = hv.mem ]

\* SSAddReplace rewriting the last Item of the heap instead of its root
SSAddReplaceLast(s, key, count) ==
    LET n        == Len(s.heap)
        p        == s.heap[n]
        smallest == s.mem[p]
        m2 == [s.mem EXCEPT ![p] = [Key   |-> key,
                                    Count |-> smallest.Count + count,
                                    Error |-> smallest.Count,
                                    Index |-> smallest.Index]]
        hv == Fix([h |-> s.heap, mem |-> m2], n - 1)
    IN  [ s EXCEPT !.items = [k \in (DOMAIN s.items \ {smallest.Key}) \cup {key} |->
                                 IF k = key THEN p ELSE s.items[k]],
                   !.heap = hv.h, !.mem = hv.mem ]

\* SSAddReplace leaving the Error of the new key at 0
SSAddReplaceNoError(s, key, count) ==
    LET p        == s.heap[1]
        smallest == s.mem[p]
        m2 == [s.mem EXCEPT ![p] = [Key   |-> key,
                                    Count |-> smallest.Count + count,
                                    Error |-> 0,
                                    Index |-> smallest.Index]]
        hv == Fix([h |-> s.heap, mem |-> m2], 0)
    IN  [ s EXCEPT !.items = [k \in (DOMAIN s.items \ {smallest.Key}) \cup {key} |->
                                 IF k = key THEN p ELSE s.items[k]],
                   !.heap = hv.h, !.mem = hv.mem ]

\* at capacity: the Item at ss.heap[0] is rewritten for the new key
SSAddReplace(s, key, count) ==
    LET p        == s.heap[1]
        smallest == s.mem[p]
        m2 == [s.mem EXCEPT ![p] = [Key   |-> key,
                                    Count |-> smallest.Count + count,
                                    Error |-> smallest.Count,
                                    Index |-> smallest.Index]]
        hv == Fix([h |-> s.heap, mem |-> m2], 0)
    IN  [ s EXCEPT !.items = [k \in (DOMAIN s.items \ {smallest.Key}) \cup {key} |->
                                 IF k = key THEN p ELSE s.items[k]],
                   !.heap = hv.h, !.mem = hv.mem ]

\* SSAddBranch with the capacity test off by one
SSAddBranchOffByOne(s, key) ==
    IF key \in DOMAIN s.items THEN "existing"
    ELSE IF Len(s.heap) <= s.capacity THEN "new"
    ELSE "replace"

\* which branch of SpaceSaving.Add is taken
SSAddBranch(s, key) ==
    IF key \in DOMAIN s.items THEN "existing"
    ELSE IF Len(s.heap) < s.capacity THEN "new"
    ELSE "replace"

\* SpaceSaving.Add
SSAdd(s, key, count) ==
    CASE SSAddBranch(s, key) = "existing" -> SSAddExisting(s, key, count)
      [] SSAddBranch(s, key) = "new"      -> SSAddNew(s, key, count)
      [] OTHER                            -> SSAddReplace(s, key, count)

\* the loop of SpaceSaving.TopK: pop the copy until it is empty
RECURSIVE PopAll(_, _)
PopAll(hv0, result0) ==
    With(<<hv0, result0>>, LAMBDA a :
        IF Len(a[1].h) = 0 THEN [mem |-> a[1].mem, result |-> a[2]]
        ELSE With(HeapPop(a[1]), LAMBDA r :
                 PopAll(r.hv, Append(a[2], r.hv.mem[r.item]))))

Reverse(q) == [i \in 1..Len(q) |-> q[Len(q) + 1 - i]]

\* SpaceSaving.TopK: the Items returned, and the Items of the structure
\* after the call (the copy holds the same pointers as ss.heap)
SSTopK(s, k) ==
    With(PopAll(HeapOf(s), <<>>), LAMBDA r :
        LET k2 == IF k > Len(r.result) THEN Len(r.result) ELSE k
        IN  [ result |-> SubSeq(Reverse(r.result), 1, k2),
              ss     |-> [s EXCEPT !.mem = r.mem] ])

\* SpaceSaving.Count
SSCount(s, key) ==
    IF key \in DOMAIN s.items THEN s.mem[s.items[key]].Count ELSE 0

\* SpaceSaving.Decay
SSDecay(s, factor) ==
    LET held == { s.items[k] : k \in DOMAIN s.items }
        m2 == [p \in DOMAIN s.mem |->
                  IF p \in held
                  THEN [s.mem[p] EXCEPT !.Count = Scale(@, factor),
                                        !.Error = Scale(@, factor)]
                  ELSE s.mem[p]]
    IN  WithHeap(s, HeapInit([h |-> s.heap, mem |-> m2]))

\* SpaceSaving.Clear
SSClear(s) == [s EXCEPT !.items = <<>>, !.heap = <<>>, !.mem = <<>>]

(***************************************************************************)
(* hotKeyDetector: det = [config, lastDecay, decayInterval], its sketch is *)
(* cms and its topK is ss.                                                 *)
(***************************************************************************)
\* Increment: decay when due, then add to the sketch and to the top-K
IncrementDecays(d, t) == t - d.lastDecay >= d.decayInterval

\* IncrementSketch adding before it decays
IncrementSketchAddFirst(d, c, t, key, count) ==
    IF IncrementDecays(d, t) THEN CmsDecay(CmsAdd(c, key, count), d.config.DecayFactor)
    ELSE CmsAdd(c, key, count)

IncrementSketch(d, c, t, key, count) ==
    CmsAdd(IF IncrementDecays(d, t) THEN CmsDecay(c, d.config.DecayFactor) ELSE c,
           key, count)

\* GetCount
GetCount(c, key) == Estimate(c, key)

\* the exchange sort of hotKeyDetector.TopK, positions i and j 1-based
RECURSIVE SortInner(_, _, _)
SortInner(r0, i, j) ==
    With(r0, LAMBDA r :
        IF j > Len(r) THEN r
        ELSE SortInner(IF r[i].Count < r[j].Count
                       THEN [r EXCEPT ![i] = r[j], ![j] = r[i]]
                       ELSE r,
                       i, j + 1))

RECURSIVE SortOuter(_, _)
SortOuter(r0, i) ==
    With(r0, LAMBDA r :
        IF i >= Len(r) THEN r ELSE SortOuter(SortInner(r, i, i + 1), i + 1))

\* DetTopK keeping the counts and the order of the Space-Saving structure
DetTopKUnsorted(d, c, s) ==
    With(SSTopK(s, d.config.TopK), LAMBDA t :
        [ result |-> [i \in 1..Len(t.result) |->
                         [Key |-> t.result[i].Key, Count |-> t.result[i].Count]],
          ss     |-> t.ss ])

\* hotKeyDetector.TopK: the KeyCounts returned and the top-K after the call
DetTopK(d, c, s) ==
    With(SSTopK(s, d.config.TopK), LAMBDA t :
        [ result |-> SortOuter([i \in 1..Len(t.result) |->
                                   [ Key   |-> t.result[i].Key,
                                     Count |-> Estimate(c, t.result[i].Key) ]], 1),
          ss     |-> t.ss ])

\* IsHot with a strict comparison against the threshold
IsHotStrict(d, c, s, key) ==
    IF d.config.HotThreshold > 0
    THEN [ result |-> GetCount(c, key) > d.config.HotThreshold, ss |-> s ]
    ELSE With(DetTopK(d, c, s), LAMBDA t :
             [ result |-> \E i \in 1..Len(t.result) : t.result[i].Key = key,
               ss     |-> t.ss ])

\* hotKeyDetector.IsHot: the answer and the top-K after the call
IsHot(d, c, s, key) ==
    IF d.config.HotThreshold > 0
    THEN [ result |-> GetCount(c, key) >= d.config.HotThreshold, ss |-> s ]
    ELSE With(DetTopK(d, c, s), LAMBDA t :
             [ result |-> \E i \in 1..Len(t.result) : t.result[i].Key = key,
               ss     |-> t.ss ])

(***************************************************************************)
(* localCachePolicy: lc = [config, cache, size].  The TTL is held in ticks *)
(* and Jitter and RefreshAhead as fractions <<num, den>>.                  *)
(***************************************************************************)
TicksPerSecond == 2

\* time.Duration(x) * time.Second for x = ticks/TicksPerSecond seconds:
\* the float64 is truncated to a whole number before it is scaled
DurationSeconds(num, den) == (num \div (den * TicksPerSecond)) * TicksPerSecond

\* IsExpired with the comparison the wrong way round
IsExpiredReversed(item, t) == item.Expiration > t

\* CacheItem.IsExpired at time t
IsExpired(item, t) == t > item.Expiration

\* CacheItem.ShouldRefresh at time t
ShouldRefresh(item, t) == t > item.RefreshAt

\* the first of the eight random bytes; the other seven are drawn alike
TopBytes == { 0, 1, 64, 127, 128, 129, 192 }
RandomDraws ==
    { [i \in 1..8 |-> IF i = 1 THEN b0 ELSE r] : b0 \in TopBytes, r \in { 0, 255 } }

\* int64(randomBytes[0])<<56 | ... | int64(randomBytes[7]), in units of 2^56,
\* rounded as the conversion to float64 rounds it: a tail of seven 0 bytes is
\* exact, a tail of seven 255 bytes is one below the next multiple of 2^56
\* and has more than 53 significant bits, so it rounds to that multiple
Float64OfInt64(randomBytes) ==
    LET top  == IF randomBytes[1] >= 128 THEN randomBytes[1] - 256 ELSE randomBytes[1]
        ones == \A i \in 2..8 : randomBytes[i] = 255
    IN  IF ones THEN top + 1 ELSE top

RandomValueHalfDivisor(randomBytes) == <<Float64OfInt64(randomBytes), 64>>

\* randomValue: the int64 over float64(math.MaxInt64), which is 2^63, that is
\* 128 units of 2^56
randomValue(randomBytes) == <<Float64OfInt64(randomBytes), 128>>

\* calculateTTLWithJitter
calculateTTLWithJitter(config, randomBytes) ==
    IF config.Jitter[1] <= 0 THEN <<config.TTL, 1>>
    ELSE LET jitterRange == <<config.TTL * config.Jitter[1], config.Jitter[2]>>
             rv     == randomValue(randomBytes)
             jitter == <<rv[1] * jitterRange[1], rv[2] * jitterRange[2]>>
         IN  <<config.TTL * jitter[2] + jitter[1], jitter[2]>>

\* the effective TTLs of handleSet that are whole ticks, over the draws
JitteredTTLs(config) ==
    { r[1] \div r[2] :
        r \in { x \in { calculateTTLWithJitter(config, b) : b \in RandomDraws } :
                   x[1] % x[2] = 0 } }

\* the keys the loop of evictLRU can end on: an entry of least Expiration
\* (the map is ranged over in an unspecified order), "" for an empty map
EvictCandidates(l) ==
    IF DOMAIN l.cache = {} THEN { <<>> }
    ELSE { k \in DOMAIN l.cache :
             \A k2 \in DOMAIN l.cache : l.cache[k].Expiration <= l.cache[k2].Expiration }

Remove(f, k) == [x \in DOMAIN f \ {k} |-> f[x]]

\* evictLRU with the loop ending on oldestKey
EvictLRU(l, oldestKey) ==
    IF oldestKey # <<>>
    THEN [l EXCEPT !.cache = Remove(l.cache, oldestKey), !.size = @ - 1]
    ELSE l

\* handleSet evicts first
SetEvicts(l, key) == key \notin DOMAIN l.cache /\ l.size >= l.config.Capacity

\* handleSet: t1 and t2 are the two readings of time.Now()
HandleSet(l, key, req, ttl, oldestKey, t1, t2) ==
    LET l1 == IF SetEvicts(l, key) THEN EvictLRU(l, oldestKey) ELSE l
        item == [ Key        |-> key,
                  Value      |-> req.Value,
                  Expiration |-> t1 + DurationSeconds(ttl, 1),
                  RefreshAt  |-> t2 + DurationSeconds(ttl * l.config.RefreshAhead[1],
                                                      l.config.RefreshAhead[2]) ]
    IN  [ l1 EXCEPT !.size = IF key \in DOMAIN l1.cache THEN @ ELSE @ + 1,
                    !.cache = [k \in DOMAIN l1.cache \cup {key} |->
                                  IF k = key THEN item ELSE l1.cache[k]] ]

\* handleGet: the policy after the call
HandleGet(l, key, t1) ==
    IF key \in DOMAIN l.cache /\ IsExpired(l.cache[key], t1)
    THEN [l EXCEPT !.cache = Remove(l.cache, key), !.size = @ - 1]
    ELSE l

\* handleGet: the Result returned
GetResult(l, key, t1, t2) ==
    IF key \notin DOMAIN l.cache THEN [kind |-> "CacheMiss", Key |-> key]
    ELSE IF IsExpired(l.cache[key], t1) THEN [kind |-> "CacheMiss", Key |-> key]
    ELSE [ kind |-> "CacheHit", Key |-> key, Value |-> l.cache[key].Value,
           ShouldRefresh |-> ShouldRefresh(l.cache[key], t2) ]

(***************************************************************************)
(* Inputs and configurations.                                              *)
(***************************************************************************)
HotThresholdOn == 2         \* the threshold of a detector configured with one
DecayIntervalTicks == 1     \* the decay interval of the detectors modelled

DecayFactors == { <<1, 2>>, <<98, 100>> }
HotThresholds == { 0, HotThresholdOn }
Capacities == 1..MaxCapacity

\* "", "a", "b": the keys a detector and a cache are given
DetKeys == { <<>>, <<97>>, <<98>> }
CacheKeys == DetKeys
Values == { "v1", "v2" }
\* half a second, one second
TTLs == { TicksPerSecond \div 2, TicksPerSecond }
Jitters == { <<0, 1>> }
RefreshAheads == { <<1, 2>>, <<1, 1>> }
\* SetRequest.TTL: absent, or an override in ticks
TTLOverrides == { None, [ttl |-> TicksPerSecond] }

NoCounts == [k \in Keys |-> 0]
Total == SumOver(truth, Keys)

\* the least Count held by the structure, 0 when it is empty
MinHeld(s) ==
    IF DOMAIN s.items = {} THEN 0
    ELSE Min({ s.mem[s.items[k]].Count : k \in DOMAIN s.items })

\* the clock advances
Tick ==
    /\ now < (IF det = None THEN CacheMaxTime ELSE MaxTime)
    /\ now' = now + 1
    /\ ret' = [op |-> "Tick"]
    /\ UNCHANGED <<cms, ss, det, lc, truth, restVars>>

(***************************************************************************)
(* A stand-alone CountMinSketch under Add and Estimate.                    *)
(***************************************************************************)
InitCMS ==
    /\ mgr = None /\ ks = None /\ eng = None /\ hist = None /\ wr = None /\ gets = None /\ srv = None
    /\ cms = NewCountMinSketch(Depth, Width)
    /\ ss = None /\ det = None /\ lc = None /\ now = 0
    /\ truth = NoCounts
    /\ ret = [op |-> "New"]

CMSAdd ==
    \E key \in Keys, count \in Counts :
        /\ Total + count <= MaxTotal
        /\ cms' = CmsAdd(cms, key, count)
        /\ truth' = [truth EXCEPT ![key] = @ + count]
        /\ ret' = [op |-> "Add", key |-> key, count |-> count]
        /\ UNCHANGED <<ss, det, lc, now, restVars>>

CMSEstimate ==
    \E key \in Keys :
        /\ ret' = [op |-> "Estimate", key |-> key, result |-> Estimate(cms, key)]
        /\ UNCHANGED <<cms, ss, det, lc, now, truth, restVars>>

NextCMS == CMSAdd \/ CMSEstimate

SpecCMS == InitCMS /\ [][NextCMS]_vars

(***************************************************************************)
(* A stand-alone SpaceSaving: under Add and Count alone (SpecSSAdd), and   *)
(* under all its operations (SpecSS).                                      *)
(***************************************************************************)
InitSS ==
    /\ mgr = None /\ ks = None /\ eng = None /\ hist = None /\ wr = None /\ gets = None /\ srv = None
    /\ \E capacity \in Capacities : ss = NewSpaceSaving(capacity)
    /\ cms = None /\ det = None /\ lc = None /\ now = 0
    /\ truth = NoCounts
    /\ ret = [op |-> "New"]

\* Add, while the amounts added sum to no more than max
SSAddWithin(max) ==
    \E key \in Keys, count \in Counts :
        /\ Total + count <= max
        /\ ss' = SSAdd(ss, key, count)
        /\ truth' = [truth EXCEPT ![key] = @ + count]
        /\ ret' = [op |-> "Add", key |-> key, count |-> count,
                   branch |-> SSAddBranch(ss, key), minBefore |-> MinHeld(ss)]
        /\ UNCHANGED <<cms, det, lc, now, restVars>>

SSAddCall == SSAddWithin(MaxTotal)

SSAddShort == SSAddWithin(SSMaxTotal)

SSTopKCall ==
    \E k \in 0..(MaxCapacity + 1) :
        \E t \in { SSTopK(ss, k) } :
            /\ ss' = t.ss
            /\ ret' = [op |-> "TopK", k |-> k, result |-> t.result]
            /\ UNCHANGED <<cms, det, lc, now, truth, restVars>>

SSCountCall ==
    \E key \in Keys :
        /\ ret' = [op |-> "Count", key |-> key, result |-> SSCount(ss, key)]
        /\ UNCHANGED <<cms, ss, det, lc, now, truth, restVars>>

SSDecayCall ==
    \E factor \in DecayFactors :
        /\ ss' = SSDecay(ss, factor)
        /\ ret' = [op |-> "Decay", factor |-> factor]
        /\ UNCHANGED <<cms, det, lc, now, truth, restVars>>

SSClearCall ==
    /\ ss' = SSClear(ss)
    /\ truth' = NoCounts
    /\ ret' = [op |-> "Clear"]
    /\ UNCHANGED <<cms, det, lc, now, restVars>>

NextSSAdd == SSAddCall \/ SSCountCall

SpecSSAdd == InitSS /\ [][NextSSAdd]_vars

NextSS == SSAddShort \/ SSTopKCall \/ SSCountCall \/ SSDecayCall \/ SSClearCall

SpecSS == InitSS /\ [][NextSS]_vars

\* Add and TopK alone
NextSSTopK == SSAddShort \/ SSTopKCall

SpecSSTopK == InitSS /\ [][NextSSTopK]_vars

\* Add, TopK, Count and Decay
NextSSHeap == SSAddShort \/ SSTopKCall \/ SSCountCall \/ SSDecayCall

SpecSSHeap == InitSS /\ [][NextSSHeap]_vars

(***************************************************************************)
(* The detector.                                                           *)
(***************************************************************************)
InitDet ==
    /\ mgr = None /\ ks = None /\ eng = None /\ hist = None /\ wr = None /\ gets = None /\ srv = None
    /\ \E topK \in Capacities, factor \in DecayFactors, threshold \in HotThresholds :
          /\ det = [ config |-> [ TopK |-> topK, DecayFactor |-> factor,
                                  DecayInterval |-> DecayIntervalTicks,
                                  HotThreshold |-> threshold ],
                     lastDecay |-> 0,
                     decayInterval |-> DecayIntervalTicks ]
          /\ ss = NewSpaceSaving(topK)
    /\ cms = NewCountMinSketch(DetectorDepth, Width)
    /\ lc = None /\ now = 0
    /\ truth = NoCounts
    /\ ret = [op |-> "New"]

Increment ==
    \E key \in DetKeys, count \in Counts :
        /\ Total + count <= DetMaxTotal
        /\ cms' = IncrementSketch(det, cms, now, key, count)
        /\ det' = IF IncrementDecays(det, now) THEN [det EXCEPT !.lastDecay = now] ELSE det
        /\ ss' = SSAdd(ss, key, count)
        /\ truth' = [truth EXCEPT ![key] = @ + count]
        /\ ret' = [op |-> "Increment", key |-> key, count |-> count,
                   decayed |-> IncrementDecays(det, now), since |-> now - det.lastDecay]
        /\ UNCHANGED <<lc, now, restVars>>

GetCountCall ==
    \E key \in DetKeys :
        /\ ret' = [op |-> "GetCount", key |-> key, result |-> GetCount(cms, key)]
        /\ UNCHANGED <<cms, ss, det, lc, now, truth, restVars>>

TopKCall ==
    \E t \in { DetTopK(det, cms, ss) } :
        /\ ss' = t.ss
        /\ ret' = [op |-> "TopK", result |-> t.result]
        /\ UNCHANGED <<cms, det, lc, now, truth, restVars>>

IsHotCall ==
    \E key \in DetKeys :
        \E r \in { IsHot(det, cms, ss, key) } :
            /\ ss' = r.ss
            /\ ret' = [op |-> "IsHot", key |-> key, result |-> r.result]
            /\ UNCHANGED <<cms, det, lc, now, truth, restVars>>

Reset ==
    /\ cms' = CmsReset(cms)
    /\ ss' = NewSpaceSaving(det.config.TopK)
    /\ det' = [det EXCEPT !.lastDecay = now]
    /\ truth' = NoCounts
    /\ ret' = [op |-> "Reset"]
    /\ UNCHANGED <<lc, now, restVars>>

NextDet == Increment \/ GetCountCall \/ TopKCall \/ IsHotCall \/ Reset \/ Tick

SpecDet == InitDet /\ [][NextDet]_vars

(***************************************************************************)
(* The local cache policy, its calls one after another.                    *)
(***************************************************************************)
CacheConfigs ==
    [ TTL : TTLs, Jitter : Jitters, Capacity : Capacities, RefreshAhead : RefreshAheads ]

\* newLocalCachePolicy
InitCache ==
    /\ mgr = None /\ ks = None /\ eng = None /\ hist = None /\ wr = None /\ gets = None /\ srv = None
    /\ \E config \in CacheConfigs : lc = [config |-> config, cache |-> <<>>, size |-> 0]
    /\ cms = None /\ ss = None /\ det = None /\ now = 0
    /\ truth = [k \in CacheKeys |-> None]
    /\ ret = [op |-> "New"]

\* Apply with a SetRequest; its readings of the clock fall in one tick
ApplySet ==
    \E key \in CacheKeys, value \in Values, override \in TTLOverrides,
       ttl \in JitteredTTLs(lc.config), oldestKey \in EvictCandidates(lc) :
        LET evicted == IF SetEvicts(lc, key) /\ oldestKey # <<>>
                       THEN { oldestKey } ELSE {}
        IN  /\ lc' = HandleSet(lc, key, [Value |-> value, TTL |-> override],
                               ttl, oldestKey, now, now)
            /\ truth' = [k \in CacheKeys |->
                            IF k = key THEN [time |-> now, ttl |-> ttl, value |-> value]
                            ELSE IF k \in evicted THEN None
                            ELSE truth[k]]
            /\ ret' = [op |-> "Set", key |-> key, override |-> override,
                       result |-> [kind |-> "CacheSet", Key |-> key, TTL |-> ttl],
                       evicted |-> evicted]
            /\ UNCHANGED <<cms, ss, det, now, restVars>>

\* Apply with a GetRequest; its readings of the clock fall in one tick
ApplyGet ==
    \E key \in CacheKeys :
        /\ lc' = HandleGet(lc, key, now)
        /\ ret' = [op |-> "Get", key |-> key, found |-> key \in DOMAIN lc.cache,
                   result |-> GetResult(lc, key, now, now)]
        /\ UNCHANGED <<cms, ss, det, now, truth, restVars>>

\* Apply with any other Data
ApplyOther ==
    /\ ret' = [op |-> "Other", result |-> [kind |-> "Error"]]
    /\ UNCHANGED <<cms, ss, det, lc, now, truth, restVars>>

NextCache == ApplySet \/ ApplyGet \/ ApplyOther \/ Tick

SpecCache == InitCache /\ [][NextCache]_vars

\* Apply with a SetRequest while the clock moves on: the time.Now() of the
\* expiration reads one tick, the time.Now() of refreshAt the next
ApplySetAcrossTick ==
    /\ now < CacheMaxTime
    /\ \E key \in CacheKeys, value \in Values, override \in TTLOverrides,
          ttl \in JitteredTTLs(lc.config), oldestKey \in EvictCandidates(lc) :
           LET evicted == IF SetEvicts(lc, key) /\ oldestKey # <<>>
                          THEN { oldestKey } ELSE {}
           IN  /\ lc' = HandleSet(lc, key, [Value |-> value, TTL |-> override],
                                  ttl, oldestKey, now, now + 1)
               /\ now' = now + 1
               /\ truth' = [k \in CacheKeys |->
                               IF k = key THEN [time |-> now, ttl |-> ttl, value |-> value]
                               ELSE IF k \in evicted THEN None
                               ELSE truth[k]]
               /\ ret' = [op |-> "Set", key |-> key, override |-> override,
                          result |-> [kind |-> "CacheSet", Key |-> key, TTL |-> ttl],
                          evicted |-> evicted]
               /\ UNCHANGED <<cms, ss, det, restVars>>

NextCacheClock == ApplySet \/ ApplySetAcrossTick \/ Tick

SpecCacheClock == InitCache /\ [][NextCacheClock]_vars

(***************************************************************************)
(* The policy manager: mgr = [policy, patternRegexps, whitelistKeys].      *)
(* Strings are sequences of bytes; of the syntax of package regexp the     *)
(* model has literals, '.', '^', '$' and the parentheses.                  *)
(***************************************************************************)
Caret == 94
Dollar == 36
Dot == 46
LParen == 40
RParen == 41

\* the nesting of parentheses after the bytes from i on, -1 once a ')'
\* closes nothing
RECURSIVE ParenDepth(_, _, _)
ParenDepth(pattern, i, open) ==
    IF open < 0 \/ i > Len(pattern) THEN open
    ELSE ParenDepth(pattern, i + 1,
                    IF pattern[i] = LParen THEN open + 1
                    ELSE IF pattern[i] = RParen THEN open - 1
                    ELSE open)

\* regexp.Compile: an error for unbalanced parentheses
Compile(pattern) ==
    IF ParenDepth(pattern, 1, 0) # 0
    THEN [err |-> "error parsing regexp"]
    ELSE [err |-> "nil", r |-> [expr |-> pattern]]

\* the expression from its byte i on matches s from position j on
RECURSIVE MatchHere(_, _, _, _)
MatchHere(expr, i, s, j) ==
    IF i > Len(expr) THEN TRUE
    ELSE IF expr[i] \in {LParen, RParen} THEN MatchHere(expr, i + 1, s, j)
    ELSE IF expr[i] = Caret THEN j = 1 /\ MatchHere(expr, i + 1, s, j)
    ELSE IF expr[i] = Dollar THEN j = Len(s) + 1 /\ MatchHere(expr, i + 1, s, j)
    ELSE /\ j <= Len(s)
         /\ expr[i] = Dot \/ expr[i] = s[j]
         /\ MatchHere(expr, i + 1, s, j + 1)

\* Regexp.MatchString: the expression matches somewhere in s
MatchString(r, s) == \E j \in 1..(Len(s) + 1) : MatchHere(r.expr, 1, s, j)

Range(q) == { q[i] : i \in 1..Len(q) }

\* manager.GetPolicy looking at the whitelist only
MgrGetPolicyWhitelistOnly(m, key) ==
    IF key \in DOMAIN m.whitelistKeys /\ m.whitelistKeys[key]
    THEN [policy |-> m.policy]
    ELSE None

\* manager.GetPolicy
MgrGetPolicy(m, key) ==
    IF key \in DOMAIN m.whitelistKeys /\ m.whitelistKeys[key]
    THEN [policy |-> m.policy]
    ELSE IF \E p \in DOMAIN m.patternRegexps : MatchString(m.patternRegexps[p], key)
    THEN [policy |-> m.policy]
    ELSE None

MgrRegisterPatternClearing(m, pattern) ==
    LET c == Compile(pattern)
    IN  IF c.err # "nil" THEN [err |-> c.err, m |-> [m EXCEPT !.patternRegexps = <<>>]]
        ELSE [ err |-> "nil",
               m   |-> [m EXCEPT !.patternRegexps =
                           [p \in DOMAIN @ \cup {pattern} |->
                               IF p = pattern THEN c.r ELSE @[p]]] ]

\* manager.RegisterPattern: the error returned and the manager afterwards
MgrRegisterPattern(m, pattern) ==
    LET c == Compile(pattern)
    IN  IF c.err # "nil" THEN [err |-> c.err, m |-> m]
        ELSE [ err |-> "nil",
               m   |-> [m EXCEPT !.patternRegexps =
                           [p \in DOMAIN @ \cup {pattern} |->
                               IF p = pattern THEN c.r ELSE @[p]]] ]

\* manager.AddWhitelistKey
MgrAddWhitelistKey(m, key) ==
    [m EXCEPT !.whitelistKeys = [k \in DOMAIN @ \cup {key} |-> IF k = key THEN TRUE ELSE @[k]]]

\* manager.RemoveWhitelistKey
MgrRemoveWhitelistKey(m, key) ==
    [m EXCEPT !.whitelistKeys = [k \in DOMAIN @ \ {key} |-> @[k]]]

\* the loop of policy.New over config.WhitelistPatterns from index i on
RECURSIVE MgrNewPatterns(_, _, _)
MgrNewPatterns(m0, patterns, i) ==
    With(m0, LAMBDA m :
        IF i > Len(patterns) THEN [err |-> "nil", m |-> m]
        ELSE With(MgrRegisterPattern(m, patterns[i]), LAMBDA reg :
                 IF reg.err # "nil" THEN [err |-> "invalid whitelist pattern"]
                 ELSE MgrNewPatterns(reg.m, patterns, i + 1)))

PolicyTypes == { "local-cache", "key-splitting" }

\* policy.New: the error returned and the manager
MgrNew(config) ==
    IF config.Type \notin PolicyTypes THEN [err |-> "unsupported policy type"]
    ELSE IF config.Parameters # config.Type THEN [err |-> "invalid parameters type"]
    ELSE MgrNewPatterns([ policy         |-> config.Type,
                          patternRegexps |-> <<>>,
                          whitelistKeys  |->
                              [k \in Range(config.WhitelistKeys) |-> TRUE] ],
                        config.WhitelistPatterns, 1)

\* "", "a", "b", "ab"
MgrKeys == { <<>>, <<97>>, <<98>>, <<97, 98>> }
\* "a", "^b", "b$", "^$" and "(a", which does not compile
Patterns == { <<97>>, <<Caret, 98>>, <<98, Dollar>>, <<Caret, Dollar>>, <<LParen, 97>> }

MgrConfigs ==
    [ Type              : PolicyTypes \cup { "other" },
      Parameters        : PolicyTypes,
      WhitelistKeys     : { <<>>, << <<97>> >> },
      WhitelistPatterns : { <<>>, << <<Caret, 98>> >>, << <<LParen, 97>> >>,
                            << <<Caret, 98>>, <<LParen, 97>> >>,
                            << <<LParen, 97>>, <<98, Dollar>> >> } ]

\* a manager that policy.New has returned
InitMgr ==
    /\ \E config \in MgrConfigs :
          /\ MgrNew(config).err = "nil"
          /\ mgr = MgrNew(config).m
          /\ truth = [ allow    |-> Range(config.WhitelistKeys),
                       patterns |-> Range(config.WhitelistPatterns) ]
    /\ cms = None /\ ss = None /\ det = None /\ lc = None /\ now = 0
    /\ ks = None /\ eng = None /\ hist = None /\ wr = None /\ gets = None /\ srv = None
    /\ ret = [op |-> "New"]

GetPolicy ==
    \E key \in MgrKeys :
        /\ ret' = [op |-> "GetPolicy", key |-> key, result |-> MgrGetPolicy(mgr, key)]
        /\ UNCHANGED <<coreVars, now, truth, mgr, ks, eng, hist, wr, gets, srv>>

RegisterPattern ==
    \E pattern \in Patterns :
        \E reg \in { MgrRegisterPattern(mgr, pattern) } :
            /\ mgr' = reg.m
            /\ truth' = IF reg.err = "nil"
                        THEN [truth EXCEPT !.patterns = @ \cup {pattern}]
                        ELSE truth
            /\ ret' = [op |-> "RegisterPattern", pattern |-> pattern, err |-> reg.err]
            /\ UNCHANGED <<coreVars, now, ks, eng, hist, wr, gets, srv>>

AddWhitelistKey ==
    \E key \in MgrKeys :
        /\ mgr' = MgrAddWhitelistKey(mgr, key)
        /\ truth' = [truth EXCEPT !.allow = @ \cup {key}]
        /\ ret' = [op |-> "AddWhitelistKey", key |-> key]
        /\ UNCHANGED <<coreVars, now, ks, eng, hist, wr, gets, srv>>

RemoveWhitelistKey ==
    \E key \in MgrKeys :
        /\ mgr' = MgrRemoveWhitelistKey(mgr, key)
        /\ truth' = [truth EXCEPT !.allow = @ \ {key}]
        /\ ret' = [op |-> "RemoveWhitelistKey", key |-> key]
        /\ UNCHANGED <<coreVars, now, ks, eng, hist, wr, gets, srv>>

NextMgr == GetPolicy \/ RegisterPattern \/ AddWhitelistKey \/ RemoveWhitelistKey

SpecMgr == InitMgr /\ [][NextMgr]_vars

\* no manager yet: policy.New is a step, and the manager it returns, if any,
\* is used afterwards
InitMgrNew ==
    /\ mgr = None
    /\ truth = [allow |-> {}, patterns |-> {}]
    /\ cms = None /\ ss = None /\ det = None /\ lc = None /\ now = 0
    /\ ks = None /\ eng = None /\ hist = None /\ wr = None /\ gets = None /\ srv = None
    /\ ret = [op |-> "init"]

PolicyNew ==
    \E config \in MgrConfigs :
        \E new \in { MgrNew(config) } :
            /\ mgr' = IF new.err = "nil" THEN new.m ELSE None
            /\ truth' = IF new.err = "nil"
                        THEN [ allow    |-> Range(config.WhitelistKeys),
                               patterns |-> Range(config.WhitelistPatterns) ]
                        ELSE [allow |-> {}, patterns |-> {}]
            /\ ret' = [op |-> "New", config |-> config, err |-> new.err]
            /\ UNCHANGED <<coreVars, now, ks, eng, hist, wr, gets, srv>>

NextMgrNew == PolicyNew \/ (mgr # None /\ NextMgr)

SpecMgrNew == InitMgrNew /\ [][NextMgrNew]_vars

(***************************************************************************)
(* The key-splitting policy: ks = [config].                                *)
(***************************************************************************)
MaxShards == 11

\* ":shard:"
ShardTag == <<58, 115, 104, 97, 114, 100, 58>>

\* the verb %d of fmt.Sprintf for i >= 0: the decimal digits of i
RECURSIVE FormatInt(_)
FormatInt(i) ==
    IF i < 10 THEN <<48 + i>> ELSE Append(FormatInt(i \div 10), 48 + (i % 10))

\* generateShardKeys numbering the shards from 1
GenerateShardKeysFromOne(p, key) ==
    IF p.config.Shards < 0 THEN [panic |-> "makeslice: len out of range"]
    ELSE [ panic |-> "nil",
           shardKeys |-> [i \in 1..p.config.Shards |-> key \o ShardTag \o FormatInt(i)] ]

\* generateShardKeys: make panics for a negative length
generateShardKeys(p, key) ==
    IF p.config.Shards < 0 THEN [panic |-> "makeslice: len out of range"]
    ELSE [ panic |-> "nil",
           shardKeys |-> [i \in 1..p.config.Shards |->
                             key \o ShardTag \o FormatInt(i - 1)] ]

\* handleLookAsideGet, with rand.Int() returning r
handleLookAsideGet(p, key, r) ==
    With(generateShardKeys(p, key), LAMBDA g :
        IF g.panic # "nil" THEN [kind |-> "panic", panic |-> g.panic]
        ELSE IF p.config.Shards = 0
        THEN [kind |-> "panic", panic |-> "integer divide by zero"]
        ELSE [ kind         |-> "KeySplittingGetAction",
               OriginalKey  |-> key,
               RandShardKey |-> g.shardKeys[(r % p.config.Shards) + 1],
               ShardKeys    |-> g.shardKeys ])

\* handleLookAsideSet
handleLookAsideSet(p, key, req) ==
    With(generateShardKeys(p, key), LAMBDA g :
        IF g.panic # "nil" THEN [kind |-> "panic", panic |-> g.panic]
        ELSE [ kind        |-> "KeySplittingSetAction",
               OriginalKey |-> key,
               ShardKeys   |-> g.shardKeys,
               Value       |-> req.Value,
               TTL         |-> req.TTL ])

ShardCounts == (-1)..MaxShards

\* newKeySplittingPolicy
InitKS ==
    /\ \E shards \in ShardCounts : ks = [config |-> [Shards |-> shards]]
    /\ cms = None /\ ss = None /\ det = None /\ lc = None /\ now = 0
    /\ mgr = None /\ eng = None /\ hist = None /\ wr = None /\ gets = None /\ srv = None
    /\ truth = None
    /\ ret = [op |-> "New"]

\* Apply with a GetRequest; rand.Int() is any number that is not negative
KSApplyGet ==
    \E key \in DetKeys, r \in 0..MaxShards :
        /\ ret' = [op |-> "Get", key |-> key, result |-> handleLookAsideGet(ks, key, r)]
        /\ UNCHANGED <<coreVars, now, truth, mgr, ks, eng, hist, wr, gets, srv>>

\* Apply with a SetRequest
KSApplySet ==
    \E key \in DetKeys, value \in Values, override \in TTLOverrides :
        /\ ret' = [op |-> "Set", key |-> key,
                   result |-> handleLookAsideSet(ks, key, [Value |-> value, TTL |-> override])]
        /\ UNCHANGED <<coreVars, now, truth, mgr, ks, eng, hist, wr, gets, srv>>

\* Apply with any other Data
KSApplyOther ==
    /\ ret' = [op |-> "Other", result |-> [kind |-> "Error"]]
    /\ UNCHANGED <<coreVars, now, truth, mgr, ks, eng, hist, wr, gets, srv>>

NextKS == KSApplyGet \/ KSApplySet \/ KSApplyOther

SpecKS == InitKS /\ [][NextKS]_vars

(***************************************************************************)
(* The engine singleton: eng is globalInstance, None for nil, else         *)
(* [id, policy, metrics, isRunning]; id tells one instance from another    *)
(* and metrics = [kind, stopChanClosed].                                   *)
(***************************************************************************)
MaxNews == 3

\* New that replaces an instance that exists
EngineNewReplacing(e, config, id) ==
    With(MgrNew(config.PolicyConfig), LAMBDA p :
        IF p.err # "nil"
        THEN [err |-> "failed to create policy manager", eng |-> e]
        ELSE [ err |-> "nil",
               eng |-> [ id        |-> id,
                         policy    |-> p.m,
                         metrics   |-> [ kind |-> IF config.EnableMetrics
                                                  THEN "metricServer" ELSE "noop",
                                         stopChanClosed |-> FALSE ],
                         isRunning |-> FALSE ] ])

\* internal.New: the error returned and globalInstance afterwards
EngineNew(e, config, id) ==
    IF e # None THEN [err |-> "KeyFlare is already initialized", eng |-> e]
    ELSE With(MgrNew(config.PolicyConfig), LAMBDA p :
             IF p.err # "nil"
             THEN [err |-> "failed to create policy manager", eng |-> e]
             ELSE [ err |-> "nil",
                    eng |-> [ id        |-> id,
                              policy    |-> p.m,
                              metrics   |-> [ kind |-> IF config.EnableMetrics
                                                       THEN "metricServer" ELSE "noop",
                                              stopChanClosed |-> FALSE ],
                              isRunning |-> FALSE ] ])

\* internal.Start; Start of either collector returns nil
EngineStart(e) ==
    IF e = None THEN [err |-> "KeyFlare is not initialized", eng |-> e]
    ELSE IF e.isRunning THEN [err |-> "KeyFlare is already running", eng |-> e]
    ELSE [err |-> "nil", eng |-> [e EXCEPT !.isRunning = TRUE]]

\* Stop of the collector m; http.Server.Shutdown fails when shutdownFails.
\* close(s.stopChan) panics on a channel that is closed.
MetricsStop(m, shutdownFails) ==
    IF m.kind = "noop" THEN [err |-> "nil", m |-> m]
    ELSE IF m.stopChanClosed THEN [err |-> "panic: close of closed channel", m |-> m]
    ELSE [ err |-> IF shutdownFails THEN "context deadline exceeded" ELSE "nil",
           m   |-> [m EXCEPT !.stopChanClosed = TRUE] ]

\* internal.Stop: the error returned and globalInstance afterwards
EngineStop(e, shutdownFails) ==
    IF e = None THEN [err |-> "KeyFlare is not initialized", eng |-> e]
    ELSE IF e.isRunning
    THEN With(MetricsStop(e.metrics, shutdownFails), LAMBDA st :
             IF st.err # "nil"
             THEN [err |-> st.err, eng |-> [e EXCEPT !.metrics = st.m]]
             ELSE [err |-> "nil", eng |-> None])
    ELSE [err |-> "nil", eng |-> None]

\* internal.Shutdown: stop if running and clear the singleton; the only
\* failure is NotInitialized
EngineShutdown(e) ==
    IF e = None THEN [err |-> "KeyFlare is not initialized", eng |-> e]
    ELSE [err |-> "nil", eng |-> None]

\* GetInstance that does not look at isRunning
EngineGetInstanceAnyState(e) ==
    IF e = None THEN [err |-> "KeyFlare is not initialized", kf |-> None]
    ELSE [err |-> "nil", kf |-> e.id]

\* internal.GetInstance: the error and the instance returned
EngineGetInstance(e) ==
    IF e = None THEN [err |-> "KeyFlare is not initialized", kf |-> None]
    ELSE IF ~e.isRunning THEN [err |-> "KeyFlare is not running", kf |-> None]
    ELSE [err |-> "nil", kf |-> e.id]

\* redis.Wrap, and Wrap of the other wrappers: the error and the Wrapper
WrapperWrap(e, client) ==
    With(EngineGetInstance(e), LAMBDA g :
        IF g.err # "nil"
        THEN [err |-> "failed to get KeyFlare instance", wrapper |-> None]
        ELSE [err |-> "nil", wrapper |-> [client |-> client, kf |-> g.kf]])

\* the configurations New is given: policy configurations policy.New
\* accepts and ones it rejects
EngineConfigs ==
    [ PolicyConfig  : { c \in MgrConfigs : c.WhitelistKeys = <<>> /\ c.WhitelistPatterns = <<>> },
      EnableMetrics : BOOLEAN ]

\* the package before any call: globalInstance is nil
InitEngine ==
    /\ eng = None
    /\ truth = [news |-> 0]
    /\ cms = None /\ ss = None /\ det = None /\ lc = None /\ now = 0
    /\ mgr = None /\ ks = None /\ hist = None /\ wr = None /\ gets = None /\ srv = None
    /\ ret = [op |-> "init"]

New ==
    \E config \in EngineConfigs :
        \E r \in { EngineNew(eng, config, truth.news + 1) } :
            /\ r.err = "nil" => truth.news < MaxNews
            /\ eng' = r.eng
            /\ truth' = IF r.err = "nil" THEN [news |-> truth.news + 1] ELSE truth
            /\ ret' = [op |-> "New", err |-> r.err, valid |-> MgrNew(config.PolicyConfig).err = "nil"]
            /\ UNCHANGED <<coreVars, now, mgr, ks, hist, wr, gets, srv>>

Start ==
    /\ eng' = EngineStart(eng).eng
    /\ ret' = [op |-> "Start", err |-> EngineStart(eng).err]
    /\ UNCHANGED <<coreVars, now, truth, mgr, ks, hist, wr, gets, srv>>

Stop ==
    \E shutdownFails \in BOOLEAN :
        /\ eng' = EngineStop(eng, shutdownFails).eng
        /\ ret' = [op |-> "Stop", err |-> EngineStop(eng, shutdownFails).err]
        /\ UNCHANGED <<coreVars, now, truth, mgr, ks, hist, wr, gets, srv>>

Shutdown ==
    /\ eng' = EngineShutdown(eng).eng
    /\ ret' = [op |-> "Shutdown", err |-> EngineShutdown(eng).err]
    /\ UNCHANGED <<coreVars, now, truth, mgr, ks, hist, wr, gets, srv>>

GetInstance ==
    /\ ret' = [op |-> "GetInstance", err |-> EngineGetInstance(eng).err,
               kf |-> EngineGetInstance(eng).kf]
    /\ UNCHANGED <<coreVars, now, truth, mgr, ks, eng, hist, wr, gets, srv>>

Wrap ==
    /\ ret' = [op |-> "Wrap", err |-> WrapperWrap(eng, "client").err,
               wrapper |-> WrapperWrap(eng, "client").wrapper]
    /\ UNCHANGED <<coreVars, now, truth, mgr, ks, eng, hist, wr, gets, srv>>

NextEngine == New \/ Start \/ Stop \/ Shutdown \/ GetInstance \/ Wrap

SpecEngine == InitEngine /\ [][NextEngine]_vars

(***************************************************************************)
(* The hot key history: hist = [snapshots, maxSize, keyMeta], a snapshot   *)
(* is [timestamp, keys, keyMeta] and truth is the list of the key lists    *)
(* Add was given.                                                          *)
(***************************************************************************)
MaxHistory == 2
MaxAdds == 3
DefaultHistorySize == 30

\* newHotKeyHistory
newHotKeyHistory(maxSize) ==
    [ snapshots |-> <<>>,
      maxSize   |-> IF maxSize <= 0 THEN DefaultHistorySize ELSE maxSize,
      keyMeta   |-> <<>> ]

\* f with key k set to v
Put(f, k, v) == [x \in DOMAIN f \cup {k} |-> IF x = k THEN v ELSE f[x]]

\* the first loop of Add from keys[i] on: a = [keyMeta, currentMeta]
RECURSIVE AddMetaLoop(_, _, _, _)
AddMetaLoop(a0, keys, i, t) ==
    With(a0, LAMBDA a :
        IF i > Len(keys) THEN a
        ELSE LET key == keys[i].Key
                 existing ==
                     IF key \notin DOMAIN a.keyMeta
                     THEN [firstSeen |-> t, lastSeen |-> t, prevCount |-> 0]
                     ELSE [a.keyMeta[key] EXCEPT !.lastSeen = t]
             IN  AddMetaLoop([ keyMeta     |-> Put(a.keyMeta, key, existing),
                               currentMeta |-> Put(a.currentMeta, key, existing) ],
                             keys, i + 1, t))

\* the last loop of Add from keys[i] on
RECURSIVE AddPrevLoop(_, _, _)
AddPrevLoop(keyMeta0, keys, i) ==
    With(keyMeta0, LAMBDA keyMeta :
        IF i > Len(keys) THEN keyMeta
        ELSE AddPrevLoop(IF keys[i].Key \in DOMAIN keyMeta
                         THEN [keyMeta EXCEPT ![keys[i].Key].prevCount = keys[i].Count]
                         ELSE keyMeta,
                         keys, i + 1))

\* Add that updates the previous counts before it takes the snapshot
HistAddUpdatingFirst(h, keys, t) ==
    With(AddMetaLoop([keyMeta |-> AddPrevLoop(h.keyMeta, keys, 1), currentMeta |-> <<>>],
                     keys, 1, t),
         LAMBDA a :
        LET snapshots == Append(h.snapshots,
                                [timestamp |-> t, keys |-> keys, keyMeta |-> a.currentMeta])
        IN  [ h EXCEPT !.snapshots = IF Len(snapshots) > h.maxSize
                                     THEN Tail(snapshots) ELSE snapshots,
                       !.keyMeta = AddPrevLoop(a.keyMeta, keys, 1) ])

\* hotKeyHistory.Add at time t
HistAdd(h, keys, t) ==
    With(AddMetaLoop([keyMeta |-> h.keyMeta, currentMeta |-> <<>>], keys, 1, t),
         LAMBDA a :
        LET snapshots == Append(h.snapshots,
                                [timestamp |-> t, keys |-> keys, keyMeta |-> a.currentMeta])
        IN  [ h EXCEPT !.snapshots = IF Len(snapshots) > h.maxSize
                                     THEN Tail(snapshots) ELSE snapshots,
                       !.keyMeta = AddPrevLoop(a.keyMeta, keys, 1) ])

\* GetLatest that returns the oldest snapshot held
HistGetOldest(h) ==
    IF Len(h.snapshots) = 0 THEN None ELSE h.snapshots[1]

\* hotKeyHistory.GetLatest
HistGetLatest(h) ==
    IF Len(h.snapshots) = 0 THEN None ELSE h.snapshots[Len(h.snapshots)]

\* the trend handleHotKeys reports for a count and the metadata of its key
Trend(count, meta) ==
    IF meta.prevCount = 0 THEN "new"
    ELSE IF count > meta.prevCount THEN "rising"
    ELSE IF count < meta.prevCount THEN "falling"
    ELSE "stable"

\* metricServer.handleHotKeys: the keys of the response
HandleHotKeysOf(h, limit) ==
    With(HistGetLatest(h), LAMBDA snapshot :
        IF snapshot = None THEN <<>>
        ELSE [ i \in 1..Min({limit, Len(snapshot.keys)}) |->
                 LET kc == snapshot.keys[i]
                 IN  IF kc.Key \in DOMAIN snapshot.keyMeta
                     THEN [ Key       |-> kc.Key,
                            Count     |-> kc.Count,
                            Rank      |-> i,
                            FirstSeen |-> snapshot.keyMeta[kc.Key].firstSeen,
                            LastSeen  |-> snapshot.keyMeta[kc.Key].lastSeen,
                            Trend     |-> Trend(kc.Count, snapshot.keyMeta[kc.Key]) ]
                     ELSE [ Key |-> kc.Key, Count |-> kc.Count, Rank |-> i,
                            FirstSeen |-> 0, LastSeen |-> 0, Trend |-> "" ] ])

DefaultLimit == 100

\* "a", "b"
HistKeys == { <<97>>, <<98>> }
HistCounts == { 0, 1, 2 }

\* the lists Add is given, as the detector's TopK returns them: no key
\* twice, the larger count first
KeyCountLists ==
    { q \in UNION { [1..n -> [Key : HistKeys, Count : HistCounts]] : n \in 0..2 } :
        \A i, j \in 1..Len(q) :
            i < j => /\ q[i].Key # q[j].Key
                     /\ q[i].Count >= q[j].Count
                     /\ q[i].Count = q[j].Count => q[i].Key = <<97>> }

\* the query parameter limit: absent, or a number
Limits == { None, [limit |-> 1] }

\* newHotKeyHistory
InitHist ==
    /\ \E maxSize \in 1..MaxHistory : hist = newHotKeyHistory(maxSize)
    /\ truth = <<>>
    /\ cms = None /\ ss = None /\ det = None /\ lc = None /\ now = 0
    /\ mgr = None /\ ks = None /\ eng = None /\ wr = None /\ gets = None /\ srv = None
    /\ ret = [op |-> "New"]

\* UpdateHotKeys calls Add; the clock has moved on by the next call
HistoryAdd ==
    \E keys \in KeyCountLists :
        /\ Len(truth) < MaxAdds
        /\ hist' = HistAdd(hist, keys, now)
        /\ truth' = Append(truth, keys)
        /\ now' = now + 1
        /\ ret' = [op |-> "Add"]
        /\ UNCHANGED <<coreVars, mgr, ks, eng, wr, gets, srv>>

HistoryGetLatest ==
    /\ ret' = [op |-> "GetLatest", result |-> HistGetLatest(hist)]
    /\ UNCHANGED <<coreVars, now, truth, mgr, ks, eng, hist, wr, gets, srv>>

\* GET /hot-keys
HandleHotKeys ==
    \E l \in Limits :
        /\ ret' = [ op |-> "handleHotKeys",
                    Keys |-> HandleHotKeysOf(hist, IF l = None THEN DefaultLimit ELSE l.limit) ]
        /\ UNCHANGED <<coreVars, now, truth, mgr, ks, eng, hist, wr, gets, srv>>

NextHist == HistoryAdd \/ HistoryGetLatest \/ HandleHotKeys

SpecHist == InitHist /\ [][NextHist]_vars

(***************************************************************************)
(* The detector options of the public New.  A time.Duration is an int64    *)
(* of nanoseconds, held as its 8 bytes in two's complement, the least      *)
(* significant first, so that a product wraps as it does in Go.            *)
(***************************************************************************)
\* the k low bytes of n >= 0
RECURSIVE Bytes(_, _)
Bytes(n, k) == IF k = 0 THEN <<>> ELSE <<n % 256>> \o Bytes(n \div 256, k - 1)

\* the int64 of an integer of the model
Int64(n) == IF n >= 0 THEN Bytes(n, 8) ELSE [i \in 1..8 |-> 255 - Bytes(-n - 1, 8)[i]]

IsNegative64(a) == a[8] >= 128
IsZero64(a) == \A i \in 1..8 : a[i] = 0

\* the sum of a[i] * b[j] over the byte positions with i + j = k + 1
ColumnSum(a, b, k) == SumOver([i \in 1..k |-> a[i] * b[k + 1 - i]], 1..k)

\* a * b in int64, from byte k on with the carry of the bytes below
RECURSIVE MulFrom(_, _, _, _)
MulFrom(a, b, k, carry) ==
    IF k > 8 THEN <<>>
    ELSE With(ColumnSum(a, b, k) + carry, LAMBDA t :
             <<t % 256>> \o MulFrom(a, b, k + 1, t \div 256))

\* the product of two int64, which wraps
Mul64(a, b) == MulFrom(a, b, 1, 0)

\* a >= 0 divided by the small number d, from byte k down: [q, r]
RECURSIVE DivFrom(_, _, _, _)
DivFrom(a, d, k, r) ==
    IF k = 0 THEN [q |-> <<>>, r |-> r]
    ELSE With(r * 256 + a[k], LAMBDA t :
             With(DivFrom(a, d, k - 1, t % d), LAMBDA rest :
                 [q |-> Append(rest.q, t \div d), r |-> rest.r]))

DivSmall(a, d) == DivFrom(a, d, 8, 0)

\* the integer of the bytes of an int64 from byte k up, for one that fits
\* the integers of the model
RECURSIVE ToInt(_, _)
ToInt(a, k) == IF k > 8 THEN 0 ELSE a[k] + 256 * ToInt(a, k + 1)

\* time.Second
Second == Int64(1000000000)

\* DefaultDetectorDecayInterval = 60 * time.Second
DefaultDetectorDecayInterval == Mul64(Int64(60), Second)

\* the clock of the detector of the public New moves in steps of 30 s
TickSeconds == 30

\* a duration > 0 in ticks of TickSeconds, rounded up: an Increment t
\* ticks after the last decay has now.Sub(lastDecay) >= d exactly when
\* t is at least this many
DurationTicks(d) ==
    With(DivSmall(d, 1000), LAMBDA d1 :
    With(DivSmall(d1.q, 1000), LAMBDA d2 :
    With(DivSmall(d2.q, 1000), LAMBDA d3 :
    With(DivSmall(d3.q, TickSeconds), LAMBDA d4 :
        ToInt(d4.q, 1) + (IF d1.r + d2.r + d3.r + d4.r > 0 THEN 1 ELSE 0)))))

DefaultDetectorTopK == 100
DefaultTopK == 100
\* 0.98
DefaultDetectorDecayFactor == <<98, 100>>

\* DefaultDetectorOptions
DefaultDetectorOptions ==
    [ TopK          |-> DefaultDetectorTopK,
      DecayFactor   |-> DefaultDetectorDecayFactor,
      DecayInterval |-> DefaultDetectorDecayInterval,
      HotThreshold  |-> 0 ]

\* applyDetectorDefaults
applyDetectorDefaults(opts) ==
    [ opts EXCEPT
        !.TopK          = IF @ <= 0 THEN DefaultDetectorTopK ELSE @,
        !.DecayFactor   = IF @[1] <= 0 THEN DefaultDetectorDecayFactor ELSE @,
        !.DecayInterval = IF IsNegative64(@) \/ IsZero64(@)
                          THEN DefaultDetectorDecayInterval ELSE @ ]

\* keyflare.New: the detector.Config made of the options;
\* time.Duration(DecayInterval) * time.Second
PublicDetectorConfig(options) ==
    LET o == applyDetectorDefaults(IF options = None THEN DefaultDetectorOptions ELSE options)
    IN  [o EXCEPT !.DecayInterval = Mul64(@, Second)]

\* detector.New at time t: the hotKeyDetector
DetectorNew(config, t) ==
    With([ config EXCEPT
             !.TopK          = IF @ <= 0 THEN DefaultTopK ELSE @,
             !.DecayFactor   = IF @[1] <= 0 THEN DefaultDetectorDecayFactor ELSE @,
             !.DecayInterval = IF IsNegative64(@) \/ IsZero64(@)
                               THEN Mul64(Int64(60), Second) ELSE @ ],
         LAMBDA c :
        [ config |-> c, lastDecay |-> t, decayInterval |-> DurationTicks(c.DecayInterval) ])

\* the detector options New is given: none, or a DecayInterval unset,
\* negative, or 60 for sixty seconds
DetectorOptionSets ==
    { None } \cup
    [ TopK          : { 0, MaxCapacity },
      DecayFactor   : { <<0, 1>>, <<1, 2>> },
      DecayInterval : { Int64(0), Int64(-1), Int64(60) },
      HotThreshold  : { 0 } ]

\* keyflare.New has made the detector of the engine
InitOpts ==
    /\ \E options \in DetectorOptionSets :
          \E d \in { DetectorNew(PublicDetectorConfig(options), 0) } :
              /\ det = d
              /\ ss = NewSpaceSaving(d.config.TopK)
              /\ ret = [op |-> "New", options |-> options]
    /\ cms = NewCountMinSketch(DetectorDepth, Width)
    /\ lc = None /\ now = 0
    /\ mgr = None /\ ks = None /\ eng = None /\ hist = None /\ wr = None /\ gets = None /\ srv = None
    /\ truth = NoCounts

NextOpts == Increment \/ Tick

SpecOpts == InitOpts /\ [][NextOpts]_vars

(***************************************************************************)
(* The jitter of the local cache: calculateTTLWithJitter on its own,       *)
(* applied to eight random bytes.  A float64 is written <<n, d>> for n/d.  *)
(***************************************************************************)
MaxJitterTTL == 3           \* the largest configured TTL, in seconds

JitterFractions == { <<0, 1>>, <<1, 5>>, <<1, 2>>, <<9, 10>> }
JitterConfigs ==
    [ TTL : 1..MaxJitterTTL, Jitter : JitterFractions,
      Capacity : { MaxCapacity }, RefreshAhead : { <<1, 2>> } ]

InitJitter ==
    /\ mgr = None /\ ks = None /\ eng = None /\ hist = None /\ wr = None /\ gets = None /\ srv = None
    /\ \E config \in JitterConfigs : lc = [config |-> config, cache |-> <<>>, size |-> 0]
    /\ cms = None /\ ss = None /\ det = None /\ now = 0
    /\ truth = None
    /\ ret = [op |-> "New"]

\* one call of calculateTTLWithJitter, as handleSet makes it
CalculateTTL ==
    \E randomBytes \in RandomDraws :
        /\ ret' = [op |-> "calculateTTLWithJitter", random |-> randomBytes,
                   ttl |-> calculateTTLWithJitter(lc.config, randomBytes)]
        /\ UNCHANGED <<coreVars, now, truth, restVars>>

NextJitter == CalculateTTL

SpecJitter == InitJitter /\ [][NextJitter]_vars

(***************************************************************************)
(* The Redis wrapper over a detector, a policy manager and its policy.     *)
(* wr = [client, async, calls, panicked]: client maps a key of the cluster *)
(* to the string it holds, async is the set of goroutines started and not  *)
(* yet run, panicked tells that a call has panicked.                       *)
(***************************************************************************)
MaxCalls == 3               \* the Get and Set calls of a run
WrapShards == 2             \* the shards of the key-splitting policy

\* "a", which the manager admits, and "b", which it does not
WrapKeys == { <<97>>, <<98>> }
\* a value of type any: its dynamic type and the text go-redis writes for it
WrapValues == { [type |-> "string", text |-> "v1"], [type |-> "int", text |-> "7"] }

\* client.Get: the StringCmd
ClientGet(client, key) ==
    IF key \in DOMAIN client
    THEN [kind |-> "cmd", val |-> client[key], err |-> "nil", from |-> "backend"]
    ELSE [kind |-> "cmd", val |-> "", err |-> "redis: nil", from |-> "backend"]

\* client.Set: the cluster afterwards
ClientSet(client, key, value) ==
    [k \in DOMAIN client \cup {key} |-> IF k = key THEN value.text ELSE client[k]]

\* the StatusCmd of a client.Set
StatusOK == [kind |-> "cmd", val |-> "OK", err |-> "nil", from |-> "backend"]

\* replicateToShards from shard i on
RECURSIVE replicateToShards(_, _, _, _)
replicateToShards(client, shardKeys, value, i) ==
    IF i > Len(shardKeys) THEN client
    ELSE replicateToShards(ClientSet(client, shardKeys[i], value), shardKeys, value, i + 1)

\* incrementKey: Detector().Increment(key, 1)
incrementKey(d, c, s, t, key) ==
    [ cms |-> IncrementSketch(d, c, t, key, 1),
      det |-> IF IncrementDecays(d, t) THEN [d EXCEPT !.lastDecay = t] ELSE d,
      ss  |-> SSAdd(s, key, 1) ]

\* Policy.Apply of the manager's policy: the Result's Data and the local
\* cache afterwards; ttl, oldestKey and r are the draws the policy makes
PolicyApply(m, l, k, key, operation, value, ttl, oldestKey, r, t) ==
    IF m.policy = "local-cache"
    THEN IF operation = "get"
         THEN [result |-> GetResult(l, key, t, t), lc |-> HandleGet(l, key, t)]
         ELSE [ result |-> [kind |-> "CacheSet", Key |-> key, TTL |-> ttl],
                lc     |-> HandleSet(l, key, [Value |-> value, TTL |-> None],
                                     ttl, oldestKey, t, t) ]
    ELSE IF operation = "get"
         THEN [result |-> handleLookAsideGet(k, key, r), lc |-> l]
         ELSE [ result |-> handleLookAsideSet(k, key, [Value |-> value, TTL |-> None]),
                lc     |-> l ]

\* applyPolicyIfHot after incrementKey: the policy result (None for nil),
\* and the top-K and the local cache afterwards
applyPolicyIfHot(inc, m, l, k, key, operation, value, ttl, oldestKey, r, t) ==
    With(IsHot(inc.det, inc.cms, inc.ss, key), LAMBDA hot :
        IF hot.result /\ MgrGetPolicy(m, key) # None
        THEN With(PolicyApply(m, l, k, key, operation, value, ttl, oldestKey, r, t),
                  LAMBDA a : [ policyResult |-> a.result, lc |-> a.lc, ss |-> hot.ss,
                               hot |-> TRUE, admitted |-> TRUE ])
        ELSE [ policyResult |-> None, lc |-> l, ss |-> hot.ss,
               hot |-> hot.result, admitted |-> MgrGetPolicy(m, key) # None ])

\* result.Value.(string) of a CacheHit: only a string passes the assertion
CacheHitCmd(result) ==
    IF result.Value.type = "string"
    THEN [kind |-> "cmd", val |-> result.Value.text, err |-> "nil", from |-> "cache"]
    ELSE [kind |-> "panic", panic |-> "interface conversion: interface {} is not string"]

\* Wrapper.handleLookAsideGet: the command returned and the goroutines started
WrapperLookAsideGet(client, action) ==
    LET shardResult == ClientGet(client, action.RandShardKey)
        original    == ClientGet(client, action.OriginalKey)
    IN  IF shardResult.err = "nil" THEN [cmd |-> shardResult, go |-> {}]
        ELSE IF original.err # "nil" THEN [cmd |-> original, go |-> {}]
        ELSE [ cmd |-> original,
               go  |-> { [ kind  |-> "replicateToShards", keys |-> action.ShardKeys,
                           value |-> [type |-> "string", text |-> original.val] ] } ]

\* Wrapper.Get after applyPolicyIfHot returned p: the command returned (or
\* the panic) and the goroutines started
WrapperGetCmd(client, key, p) ==
    IF p = None THEN [cmd |-> ClientGet(client, key), go |-> {}]
    ELSE IF p.kind = "panic" THEN [cmd |-> p, go |-> {}]
    ELSE IF p.kind = "CacheHit" THEN [cmd |-> CacheHitCmd(p), go |-> {}]
    ELSE IF p.kind = "KeySplittingGetAction" THEN WrapperLookAsideGet(client, p)
    ELSE IF p.kind = "CacheMiss"
    THEN LET redisResult == ClientGet(client, key)
         IN  [ cmd |-> redisResult,
               go  |-> IF redisResult.err = "nil"
                       THEN { [ kind  |-> "asyncSetLocalCache", keys |-> <<key>>,
                                value |-> [type |-> "string", text |-> redisResult.val] ] }
                       ELSE {} ]
    ELSE [ cmd |-> [kind |-> "cmd", val |-> "", err |-> "nil", from |-> "none"],
           go  |-> {} ]

\* Wrapper.Set after applyPolicyIfHot returned p: the command returned (or
\* the panic), the cluster afterwards and the goroutines started
WrapperSetCmd(client, key, value, p) ==
    IF p # None /\ p.kind = "panic" THEN [cmd |-> p, client |-> client, go |-> {}]
    ELSE IF p # None /\ p.kind = "KeySplittingSetAction"
    THEN [ cmd    |-> StatusOK,
           client |-> ClientSet(client, p.OriginalKey, p.Value),
           go     |-> { [ kind  |-> "replicateToShards", keys |-> p.ShardKeys,
                          value |-> p.Value ] } ]
    ELSE [cmd |-> StatusOK, client |-> ClientSet(client, key, value), go |-> {}]

\* Wrap over a started engine: a manager that admits "a", its policy, a
\* detector and an empty cluster
InitWrap ==
    /\ \E type \in PolicyTypes :
          mgr = MgrNew([ Type |-> type, Parameters |-> type,
                         WhitelistKeys |-> << <<97>> >>, WhitelistPatterns |-> <<>> ]).m
    /\ lc = [ config |-> [ TTL |-> TicksPerSecond, Jitter |-> <<0, 1>>,
                           Capacity |-> 1, RefreshAhead |-> <<1, 2>> ],
              cache |-> <<>>, size |-> 0 ]
    /\ ks = [config |-> [Shards |-> WrapShards]]
    /\ \E threshold \in HotThresholds :
          det = [ config |-> [ TopK |-> 1, DecayFactor |-> <<1, 2>>,
                               DecayInterval |-> DecayIntervalTicks,
                               HotThreshold |-> threshold ],
                  lastDecay |-> 0,
                  decayInterval |-> DecayIntervalTicks ]
    /\ ss = NewSpaceSaving(1)
    /\ cms = NewCountMinSketch(DetectorDepth, Width)
    /\ wr = [client |-> <<>>, async |-> {}, calls |-> 0, panicked |-> FALSE]
    /\ gets = None /\ srv = None
    /\ now = 0 /\ truth = None /\ eng = None /\ hist = None
    /\ ret = [op |-> "Wrap"]

\* Wrapper.Get
WrapperGet ==
    /\ ~wr.panicked /\ wr.calls < MaxCalls
    /\ \E key \in WrapKeys, r \in 0..(WrapShards - 1) :
        \E inc \in { incrementKey(det, cms, ss, now, key) } :
        \E a \in { applyPolicyIfHot(inc, mgr, lc, ks, key, "get", None, 0, <<>>, r, now) } :
        \E g \in { WrapperGetCmd(wr.client, key, a.policyResult) } :
            /\ cms' = inc.cms /\ det' = inc.det /\ ss' = a.ss /\ lc' = a.lc
            /\ wr' = [wr EXCEPT !.async = @ \cup g.go, !.calls = @ + 1,
                                !.panicked = g.cmd.kind = "panic"]
            /\ ret' = [op |-> "Get", key |-> key, hot |-> a.hot, admitted |-> a.admitted,
                       policyResult |-> a.policyResult, result |-> g.cmd]
            /\ UNCHANGED <<now, truth, mgr, ks, eng, hist, gets, srv>>

\* Wrapper.Set
WrapperSet ==
    /\ ~wr.panicked /\ wr.calls < MaxCalls
    /\ \E key \in WrapKeys, value \in WrapValues,
          ttl \in JitteredTTLs(lc.config), oldestKey \in EvictCandidates(lc) :
        \E inc \in { incrementKey(det, cms, ss, now, key) } :
        \E a \in { applyPolicyIfHot(inc, mgr, lc, ks, key, "set", value,
                                    ttl, oldestKey, 0, now) } :
        \E g \in { WrapperSetCmd(wr.client, key, value, a.policyResult) } :
            /\ cms' = inc.cms /\ det' = inc.det /\ ss' = a.ss /\ lc' = a.lc
            /\ wr' = [wr EXCEPT !.client = g.client, !.async = @ \cup g.go,
                                !.calls = @ + 1, !.panicked = g.cmd.kind = "panic"]
            /\ ret' = [op |-> "Set", key |-> key, hot |-> a.hot, admitted |-> a.admitted,
                       policyResult |-> a.policyResult, result |-> g.cmd]
            /\ UNCHANGED <<now, truth, mgr, ks, eng, hist, gets, srv>>

\* a goroutine runs: asyncSetLocalCache applies a SetRequest to the policy
\* of its key, replicateToShards writes the shards
RunAsync ==
    /\ ~wr.panicked
    /\ \E go \in wr.async :
          /\ IF go.kind = "asyncSetLocalCache"
             THEN /\ \E ttl \in JitteredTTLs(lc.config), oldestKey \in EvictCandidates(lc) :
                        lc' = IF MgrGetPolicy(mgr, go.keys[1]) # None
                              THEN PolicyApply(mgr, lc, ks, go.keys[1], "set", go.value,
                                               ttl, oldestKey, 0, now).lc
                              ELSE lc
                  /\ wr' = [wr EXCEPT !.async = @ \ {go}]
             ELSE /\ lc' = lc
                  /\ wr' = [wr EXCEPT !.async = @ \ {go},
                                      !.client = replicateToShards(@, go.keys, go.value, 1)]
          /\ ret' = [op |-> go.kind]
          /\ UNCHANGED <<cms, ss, det, now, truth, mgr, ks, eng, hist, gets, srv>>

NextWrap == WrapperGet \/ WrapperSet \/ RunAsync

SpecWrap == InitWrap /\ [][NextWrap]_vars

(***************************************************************************)
(* The local cache under concurrent Apply calls.  handleSet holds the      *)
(* write lock from its capacity check to its return and is one step.       *)
(* handleGet is three: the lookup under the read lock, the expiry check    *)
(* with no lock held, the delete under the write lock.  gets[t] is the     *)
(* handleGet thread t is in; truth[k] is the last Set of k that returned,  *)
(* None once k was evicted for capacity.                                   *)
(***************************************************************************)
MaxThreads == 2
Threads == 1..MaxThreads

Idle == [pc |-> "idle"]

\* "a" and "b"
ConcKeys == { <<97>>, <<98>> }

ConcConfigs ==
    [ TTL : TTLs, Jitter : Jitters, Capacity : Capacities, RefreshAhead : { <<1, 2>> } ]

InitConc ==
    /\ \E config \in ConcConfigs : lc = [config |-> config, cache |-> <<>>, size |-> 0]
    /\ gets = [t \in Threads |-> Idle]
    /\ srv = None
    /\ truth = [k \in ConcKeys |-> None]
    /\ cms = None /\ ss = None /\ det = None /\ now = 0
    /\ mgr = None /\ ks = None /\ eng = None /\ hist = None /\ wr = None
    /\ ret = [op |-> "New"]

\* handleSet, by a thread that is in no handleGet
ConcSet ==
    \E t \in Threads, key \in ConcKeys, value \in Values,
       ttl \in JitteredTTLs(lc.config), oldestKey \in EvictCandidates(lc) :
        LET evicted == IF SetEvicts(lc, key) /\ oldestKey # <<>>
                       THEN { oldestKey } ELSE {}
        IN  /\ gets[t] = Idle
            /\ lc' = HandleSet(lc, key, [Value |-> value, TTL |-> None],
                               ttl, oldestKey, now, now)
            /\ truth' = [k \in ConcKeys |->
                            IF k = key
                            THEN [value |-> value, Expiration |-> lc'.cache[key].Expiration]
                            ELSE IF k \in evicted THEN None
                            ELSE truth[k]]
            /\ ret' = [op |-> "Set", thread |-> t, key |-> key,
                       result |-> [kind |-> "CacheSet", Key |-> key, TTL |-> ttl]]
            /\ UNCHANGED <<cms, ss, det, now, mgr, ks, eng, hist, wr, gets, srv>>

\* handleGet, the lookup: item, ok := p.cache[ctx.Key] under the read lock;
\* a key that is not there returns CacheMiss at once
GetLookup ==
    \E t \in Threads, key \in ConcKeys :
        /\ gets[t] = Idle
        /\ IF key \in DOMAIN lc.cache
           THEN /\ gets' = [gets EXCEPT ![t] = [ pc |-> "check", key |-> key,
                                                 item |-> lc.cache[key],
                                                 last |-> truth[key] ]]
                /\ ret' = [op |-> "lookup", thread |-> t, key |-> key]
           ELSE /\ gets' = gets
                /\ ret' = [op |-> "Get", thread |-> t, key |-> key, last |-> truth[key],
                           result |-> [kind |-> "CacheMiss", Key |-> key]]
        /\ UNCHANGED <<coreVars, now, truth, mgr, ks, eng, hist, wr, srv>>

\* handleGet, item.IsExpired() and, for an item that has not expired,
\* item.ShouldRefresh() and the CacheHit
GetCheck ==
    \E t \in Threads :
        /\ gets[t].pc = "check"
        /\ IF IsExpired(gets[t].item, now)
           THEN /\ gets' = [gets EXCEPT ![t].pc = "delete"]
                /\ ret' = [op |-> "expired", thread |-> t, key |-> gets[t].key]
           ELSE /\ gets' = [gets EXCEPT ![t] = Idle]
                /\ ret' = [op |-> "Get", thread |-> t, key |-> gets[t].key,
                           last |-> gets[t].last,
                           result |-> [ kind |-> "CacheHit", Key |-> gets[t].key,
                                        Value |-> gets[t].item.Value,
                                        ShouldRefresh |-> ShouldRefresh(gets[t].item, now) ]]
        /\ UNCHANGED <<coreVars, now, truth, mgr, ks, eng, hist, wr, srv>>

\* handleGet, the removal under the write lock: delete(p.cache, ctx.Key);
\* p.size--, whatever the map holds for the key by now
GetDelete ==
    \E t \in Threads :
        /\ gets[t].pc = "delete"
        /\ lc' = [lc EXCEPT !.cache = Remove(@, gets[t].key), !.size = @ - 1]
        /\ gets' = [gets EXCEPT ![t] = Idle]
        /\ ret' = [op |-> "Get", thread |-> t, key |-> gets[t].key, last |-> gets[t].last,
                   result |-> [kind |-> "CacheMiss", Key |-> gets[t].key]]
        /\ UNCHANGED <<cms, ss, det, now, truth, mgr, ks, eng, hist, wr, srv>>

\* the clock advances
ConcTick ==
    /\ now < CacheMaxTime
    /\ now' = now + 1
    /\ ret' = [op |-> "Tick"]
    /\ UNCHANGED <<coreVars, truth, restVars>>

NextConc == ConcSet \/ GetLookup \/ GetCheck \/ GetDelete \/ ConcTick

SpecConc == InitConc /\ [][NextConc]_vars

(***************************************************************************)
(* The metricServer and its collection task (metrics/collector.go).       *)
(* Start and Stop are called by one caller; each Start launches a         *)
(* collection goroutine, which takes one step of its loop at a time.      *)
(***************************************************************************)

\* how many times Start and Stop are called, and how far the ticker runs
MaxStarts == 2
MaxStops == 2
MaxCollTime == 3

\* the detectors SetDetector is given, each by what its TopK returns
CollDetectors == { [topK |-> <<>>], [topK |-> <<[Key |-> <<97>>, Count |-> 2]>>] }

\* newMetricServer: no ticker, no server, an open stopChan
newMetricServer ==
    [ detector         |-> None,
      collectionTicker |-> None,
      stopChanClosed   |-> FALSE,
      servers          |-> <<>>,
      tasks            |-> <<>>,
      caller           |-> "idle",
      panicked         |-> FALSE ]

\* the collection goroutines that have not returned
LiveTasks(s) == { g \in 1..Len(s.tasks) : s.tasks[g] # "done" }

\* the ListenAndServe goroutines that have not returned
LiveServers(s) == { i \in 1..Len(s.servers) : s.servers[i] = "serving" }

\* newMetricServer, then SetDetector or not
InitColl ==
    /\ \E d \in CollDetectors \cup {None} : srv = [newMetricServer EXCEPT !.detector = d]
    /\ hist = newHotKeyHistory(MaxHistory)
    /\ truth = [running |-> FALSE, returned |-> FALSE, ticks |-> 0, adds |-> 0,
                stops |-> 0, late |-> FALSE]
    /\ now = 0
    /\ cms = None /\ ss = None /\ det = None /\ lc = None
    /\ mgr = None /\ ks = None /\ eng = None /\ wr = None /\ gets = None
    /\ ret = [op |-> "New"]

\* metricServer.Start: a new server, a new ticker, two goroutines
CollectorStart ==
    /\ srv.caller = "idle" /\ ~srv.panicked
    /\ Len(srv.tasks) < MaxStarts
    /\ srv' = [ srv EXCEPT !.servers = Append(@, "serving"),
                           !.collectionTicker = [stopped |-> FALSE, C |-> 0],
                           !.tasks = Append(@, "select") ]
    /\ truth' = [truth EXCEPT !.running = TRUE, !.returned = FALSE]
    /\ ret' = [op |-> "Start", err |-> "nil"]
    /\ UNCHANGED <<coreVars, now, mgr, ks, eng, hist, wr, gets>>

\* the running ticker sends on its channel of capacity one; a tick that
\* finds the channel full is dropped
TickerFires ==
    /\ ~srv.panicked
    /\ srv.collectionTicker # None /\ ~srv.collectionTicker.stopped
    /\ now < MaxCollTime
    /\ srv' = [srv EXCEPT !.collectionTicker.C = 1]
    /\ now' = now + 1
    /\ ret' = [op |-> "tick"]
    /\ UNCHANGED <<coreVars, truth, mgr, ks, eng, hist, wr, gets>>

\* the select of the collection loop takes case <-s.collectionTicker.C
TaskSelectTick(g) ==
    /\ ~srv.panicked
    /\ srv.tasks[g] = "select"
    /\ srv.collectionTicker.C = 1
    /\ srv' = [srv EXCEPT !.collectionTicker.C = 0, !.tasks[g] = "collect"]
    /\ truth' = [truth EXCEPT !.ticks = @ + 1]
    /\ ret' = [op |-> "select", task |-> g, case |-> "tick"]
    /\ UNCHANGED <<coreVars, now, mgr, ks, eng, hist, wr, gets>>

\* the select of the collection loop takes case <-s.stopChan and returns
TaskSelectStop(g) ==
    /\ ~srv.panicked
    /\ srv.tasks[g] = "select"
    /\ srv.stopChanClosed
    /\ srv' = [srv EXCEPT !.tasks[g] = "done"]
    /\ ret' = [op |-> "select", task |-> g, case |-> "stop"]
    /\ UNCHANGED <<coreVars, now, truth, mgr, ks, eng, hist, wr, gets>>

\* collectMetrics: UpdateHotKeys(detector.TopK()) when a detector is set
TaskCollect(g) ==
    /\ ~srv.panicked
    /\ srv.tasks[g] = "collect"
    /\ srv' = [srv EXCEPT !.tasks[g] = "select"]
    /\ IF srv.detector # None
       THEN /\ hist' = HistAdd(hist, srv.detector.topK, now)
            /\ truth' = [truth EXCEPT !.adds = @ + 1,
                                      !.late = @ \/ truth.returned]
       ELSE UNCHANGED <<hist, truth>>
    /\ ret' = [op |-> "collectMetrics", task |-> g]
    /\ UNCHANGED <<coreVars, now, mgr, ks, eng, wr, gets>>

\* metricServer.Stop up to wg.Wait: the ticker is stopped (a tick already
\* in its channel stays or is discarded, by the version of the runtime),
\* stopChan is closed, the server shut down; an error of Shutdown is
\* returned at once
CollectorStop ==
    \E shutdownFails \in BOOLEAN, drained \in BOOLEAN :
        /\ srv.caller = "idle" /\ ~srv.panicked
        /\ truth.stops < MaxStops
        /\ IF srv.stopChanClosed
           THEN /\ ~shutdownFails /\ ~drained
                /\ srv' = [ srv EXCEPT !.panicked = TRUE,
                                       !.collectionTicker =
                                           IF @ = None THEN @
                                           ELSE [@ EXCEPT !.stopped = TRUE] ]
                /\ truth' = [truth EXCEPT !.stops = @ + 1, !.running = FALSE]
                /\ ret' = [op |-> "Stop", err |-> "panic: close of closed channel"]
           ELSE /\ srv.collectionTicker = None => ~drained
                /\ srv.servers = <<>> => ~shutdownFails
                /\ srv' = [ srv EXCEPT
                              !.collectionTicker =
                                  IF @ = None THEN @
                                  ELSE [ stopped |-> TRUE,
                                         C |-> IF drained THEN 0 ELSE @.C ],
                              !.stopChanClosed = TRUE,
                              !.servers = IF @ = <<>> THEN @
                                          ELSE [@ EXCEPT ![Len(@)] = "closed"],
                              !.caller = IF shutdownFails THEN "idle" ELSE "waiting" ]
                /\ truth' = [truth EXCEPT !.stops = @ + 1, !.running = FALSE,
                                          !.returned = shutdownFails]
                /\ ret' = IF shutdownFails
                          THEN [op |-> "Stop", err |-> "context deadline exceeded"]
                          ELSE [op |-> "close"]
        /\ UNCHANGED <<coreVars, now, mgr, ks, eng, hist, wr, gets>>

\* metricServer.Stop from wg.Wait on: every goroutine has returned
CollectorStopReturn ==
    /\ srv.caller = "waiting"
    /\ LiveTasks(srv) = {} /\ LiveServers(srv) = {}
    /\ srv' = [srv EXCEPT !.caller = "idle"]
    /\ truth' = [truth EXCEPT !.returned = TRUE]
    /\ ret' = [op |-> "Stop", err |-> "nil"]
    /\ UNCHANGED <<coreVars, now, mgr, ks, eng, hist, wr, gets>>

NextColl ==
    \/ CollectorStart
    \/ TickerFires
    \/ \E g \in 1..Len(srv.tasks) : TaskSelectTick(g)
    \/ \E g \in 1..Len(srv.tasks) : TaskSelectStop(g)
    \/ \E g \in 1..Len(srv.tasks) : TaskCollect(g)
    \/ CollectorStop
    \/ CollectorStopReturn

SpecColl == InitColl /\ [][NextColl]_vars

(***************************************************************************)
(* hotKeyHistory.GetTimeSeries (metrics/collector.go).  A float64 is the   *)
(* pair <<numerator, denominator>>; timestamps are in seconds.  The       *)
(* counts are far below 2^63, where int64() of a uint64 is its value.     *)
(***************************************************************************)

\* the default of the query parameter timeseries_points in handleHotKeys
DefaultTimeSeriesPoints == 50

\* how long the clock runs between the Adds of the time series model
MaxSeriesTime == 4

\* the lists the collection task adds: TopK entries have been counted
SeriesLists == { q \in KeyCountLists : \A i \in 1..Len(q) : q[i].Count >= 1 }

\* the most keys handleHotKeys asks the series of
MaxKeysForTimeSeries == 10

\* timeSeriesPoints of handleHotKeys: the parsed parameter if > 0, or the default
TimeSeriesPoints == {1, MaxHistory, DefaultTimeSeriesPoints}

\* topKeyNames of handleHotKeys: the keys of the snapshot up to limit, and
\* of these the first MaxKeysForTimeSeries
TopKeyNames(snapshot, limit) ==
    LET n == IF Len(snapshot.keys) < limit THEN Len(snapshot.keys) ELSE limit
        m == IF n > MaxKeysForTimeSeries THEN MaxKeysForTimeSeries ELSE n
    IN  [i \in 1..m |-> snapshot.keys[i].Key]

\* the inner loop over snapshot.keys: the count of the first entry of key
RECURSIVE currentCount(_, _, _)
currentCount(snapshotKeys, key, j) ==
    IF j > Len(snapshotKeys) THEN 0
    ELSE IF snapshotKeys[j].Key = key THEN snapshotKeys[j].Count
    ELSE currentCount(snapshotKeys, key, j + 1)

\* rateData[key] without the check of delta < 0
rateDataSigned(count, prevCounts, key, later, interval) ==
    IF later /\ interval > 0
    THEN IF key \in DOMAIN prevCounts
         THEN <<count - prevCounts[key], interval>>
         ELSE <<count, interval>>
    ELSE <<0, 1>>

\* rateData[key]: the count per second since the previous point
rateData(count, prevCounts, key, later, interval) ==
    IF later /\ interval > 0
    THEN IF key \in DOMAIN prevCounts
         THEN LET delta == count - prevCounts[key]
              IN  <<IF delta < 0 THEN 0 ELSE delta, interval>>
         ELSE <<count, interval>>
    ELSE <<0, 1>>

\* the loop over keys from keys[j] on: a = [keyData, rateData, prevCounts]
RECURSIVE SeriesKeyLoop(_, _, _, _, _, _)
SeriesKeyLoop(a0, keys, j, snapshot, later, interval) ==
    With(a0, LAMBDA a :
        IF j > Len(keys) THEN a
        ELSE LET key   == keys[j]
                 count == currentCount(snapshot.keys, key, 1)
             IN  SeriesKeyLoop(
                     [ keyData    |-> Put(a.keyData, key, count),
                       rateData   |-> Put(a.rateData, key,
                                          rateData(count, a.prevCounts, key, later, interval)),
                       prevCounts |-> Put(a.prevCounts, key, count) ],
                     keys, j + 1, snapshot, later, interval))

\* the loop over the snapshots from index i (counted from 0) on:
\* s = [result, prevCounts, prevTimestamp]
RECURSIVE SeriesLoop(_, _, _, _, _)
SeriesLoop(s0, h, keys, startIdx, i) ==
    With(s0, LAMBDA s :
        IF i >= Len(h.snapshots) THEN s.result
        ELSE LET snapshot == h.snapshots[i + 1]
                 interval == IF i > startIdx
                             THEN snapshot.timestamp - s.prevTimestamp ELSE 0
             IN  With(SeriesKeyLoop([ keyData |-> <<>>, rateData |-> <<>>,
                                      prevCounts |-> s.prevCounts ],
                                    keys, 1, snapshot, i > startIdx, interval),
                      LAMBDA a :
                      SeriesLoop([ result |-> Append(s.result,
                                                     [ Timestamp |-> snapshot.timestamp,
                                                       Keys      |-> a.keyData,
                                                       Rates     |-> a.rateData,
                                                       Interval  |-> interval ]),
                                   prevCounts    |-> a.prevCounts,
                                   prevTimestamp |-> snapshot.timestamp ],
                                 h, keys, startIdx, i + 1)))

\* hotKeyHistory.GetTimeSeries
GetTimeSeries(h, keys, maxPoints) ==
    IF Len(h.snapshots) = 0 THEN <<>>
    ELSE LET startIdx == IF maxPoints > 0 /\ Len(h.snapshots) > maxPoints
                         THEN Len(h.snapshots) - maxPoints ELSE 0
         IN  SeriesLoop([result |-> <<>>, prevCounts |-> <<>>, prevTimestamp |-> 0],
                        h, keys, startIdx, startIdx)

\* newHotKeyHistory with room for one snapshot more than MaxHistory
InitSeries ==
    /\ hist = newHotKeyHistory(MaxHistory + 1)
    /\ truth = <<>>
    /\ cms = None /\ ss = None /\ det = None /\ lc = None /\ now = 0
    /\ mgr = None /\ ks = None /\ eng = None /\ wr = None /\ gets = None /\ srv = None
    /\ ret = [op |-> "New"]

\* UpdateHotKeys calls Add, a second or more after the Add before
SeriesAdd ==
    \E keys \in SeriesLists :
        /\ Len(truth) < MaxAdds
        /\ now < MaxSeriesTime
        /\ hist' = HistAdd(hist, keys, now)
        /\ truth' = Append(truth, keys)
        /\ now' = now + 1
        /\ ret' = [op |-> "Add"]
        /\ UNCHANGED <<coreVars, mgr, ks, eng, wr, gets, srv>>

\* a second passes
SeriesTick ==
    /\ now < MaxSeriesTime
    /\ now' = now + 1
    /\ ret' = [op |-> "tick"]
    /\ UNCHANGED <<coreVars, truth, mgr, ks, eng, hist, wr, gets, srv>>

\* handleHotKeys with include_timeseries=true: GetTimeSeries of the top keys
\* of the latest snapshot, if there are any
HistoryGetTimeSeries ==
    \E l \in Limits, maxPoints \in TimeSeriesPoints :
        /\ HistGetLatest(hist) # None
        /\ \E keys \in { TopKeyNames(HistGetLatest(hist),
                                      IF l = None THEN DefaultLimit ELSE l.limit) } :
            /\ Len(keys) > 0
            /\ ret' = [ op |-> "GetTimeSeries", keys |-> keys, maxPoints |-> maxPoints,
                        result |-> GetTimeSeries(hist, keys, maxPoints) ]
        /\ UNCHANGED <<coreVars, now, truth, mgr, ks, eng, hist, wr, gets, srv>>

NextSeries == SeriesAdd \/ SeriesTick \/ HistoryGetTimeSeries

SpecSeries == InitSeries /\ [][NextSeries]_vars

(***************************************************************************)
(* Properties.                                                             *)
(***************************************************************************)
\* the keys of a list of KeyCounts
KeysOf(r) == { r[i].Key : i \in 1..Len(r) }

C2_TopKResult ==
    ret.op = "TopK" =>
        LET r == ret.result
        IN  /\ Len(r) <= det.config.TopK
            /\ \A i \in 1..Len(r) :
                  /\ r[i].Key \in DOMAIN ss.items
                  /\ r[i].Count = Estimate(cms, r[i].Key)
            /\ \A i, j \in 1..Len(r) : i < j => r[i].Count >= r[j].Count

\* TopK returned two entries in an order and with a count that are not
\* those of the Space-Saving structure
C2_Witness ==
    /\ ret.op = "TopK" /\ Len(ret.result) = 2
    /\ ret.result[1].Count > ret.result[2].Count
    /\ SSCount(ss, ret.result[1].Key) < SSCount(ss, ret.result[2].Key)

\* C3: after Adds alone, the estimate of every key is at least the sum of
\* the amounts added for it.
C3_NoUnderestimate ==
    \A k \in Keys : Estimate(cms, k) >= truth[k]

\* two keys were added and one of them is overestimated
C3_Witness ==
    \E k \in Keys :
        /\ truth[k] > 0 /\ Estimate(cms, k) > truth[k]
        /\ ret.op = "Add"

\* C4: under Add, TopK, Count, Decay and Clear the structure holds at most
\* capacity entries, in its heap and in its key map.
C4_CapacityBound ==
    /\ Len(ss.heap) <= ss.capacity
    /\ Cardinality(DOMAIN ss.items) <= ss.capacity

\* an Add of a new key met a full structure whose Items a TopK had gone over
C4_Witness ==
    /\ ret.op = "Add" /\ ret.branch = "replace"
    /\ Len(ss.heap) = ss.capacity
    /\ \E p \in DOMAIN ss.mem : ss.mem[p].Index = -1

\* C5: under Add, a key whose true count exceeds (total added) / capacity
\* is held by the structure.
C5_TopPreservation ==
    \A k \in Keys : truth[k] * ss.capacity > Total => k \in DOMAIN ss.items

\* a heavy key is held after other keys replaced one another
C5_Witness ==
    /\ ret.op = "Add" /\ ret.branch = "replace"
    /\ ss.capacity >= 2
    /\ \E k \in Keys \ {ret.key} : truth[k] * ss.capacity > Total
    /\ \E k \in Keys : truth[k] > 0 /\ k \notin DOMAIN ss.items

\* C6: under Add, every held key has count - error <= true count <= count,
\* and a key that has just replaced the minimum has the count that minimum
\* had as its error.
C6_ErrorBound ==
    /\ \A k \in DOMAIN ss.items :
          LET item == ss.mem[ss.items[k]]
          IN  /\ item.Count - item.Error <= truth[k]
              /\ truth[k] <= item.Count
    /\ (ret.op = "Add" /\ ret.branch = "replace") =>
          ss.mem[ss.items[ret.key]].Error = ret.minBefore

\* a key came back by replacing the minimum: its error is positive and its
\* true count lies strictly inside the interval
C6_Witness ==
    /\ ret.op = "Add" /\ ret.branch = "replace"
    /\ LET item == ss.mem[ss.items[ret.key]]
       IN  /\ item.Error > 0
           /\ item.Count - item.Error < truth[ret.key]
           /\ truth[ret.key] < item.Count

\* C7: a Get of k no later than set_time + effective_ttl, k not evicted
\* since its Set, returns CacheHit with the value last set.
C7_CacheVisibility ==
    ( /\ ret.op = "Get"
      /\ truth[ret.key] # None
      /\ now <= truth[ret.key].time + truth[ret.key].ttl )
    => ( /\ ret.result.kind = "CacheHit"
         /\ ret.result.Value = truth[ret.key].value )

\* C8: a Get of a key whose entry has now > expiration_time returns
\* CacheMiss for that key and removes the entry.
C8_Expiration ==
    [][ \A k \in CacheKeys :
          ( /\ ret'.op = "Get" /\ ret'.key = k
            /\ k \in DOMAIN lc.cache
            /\ now > lc.cache[k].Expiration )
          => ( /\ ret'.result = [kind |-> "CacheMiss", Key |-> k]
               /\ k \notin DOMAIN lc'.cache ) ]_vars

\* a Get found an entry set a whole TTL and more ago, and answered CacheMiss
C8_Witness ==
    /\ ret.op = "Get" /\ ret.found
    /\ ret.result.kind = "CacheMiss"
    /\ truth[ret.key] # None
    /\ truth[ret.key].ttl >= TicksPerSecond
    /\ now > truth[ret.key].time + truth[ret.key].ttl
    /\ ret.key \notin DOMAIN lc.cache

\* C9: a CacheHit has should_refresh exactly when the time is later than
\* set_time + effective_ttl * refresh_ahead.
C9_RefreshAhead ==
    ( /\ ret.op = "Get"
      /\ ret.result.kind = "CacheHit"
      /\ truth[ret.key] # None )
    => ( ret.result.ShouldRefresh <=>
            now * lc.config.RefreshAhead[2] >
                truth[ret.key].time * lc.config.RefreshAhead[2]
                + truth[ret.key].ttl * lc.config.RefreshAhead[1] )

\* C10: the cache never stores more than Capacity entries.
C10_CacheCapacity ==
    Cardinality(DOMAIN lc.cache) <= lc.config.Capacity

\* C11: a Set of a key that is not stored, on a cache holding Capacity
\* entries, evicts exactly one entry, one of least Expiration whatever its
\* key, and stores the key; a Set of a stored key evicts nothing.
C11_Eviction ==
    [][ (ret'.op = "Set" /\ lc' # lc) =>
            LET key == ret'.key
                old == DOMAIN lc.cache
            IN  /\ key \in DOMAIN lc'.cache
                /\ key \in old => DOMAIN lc'.cache = old
                /\ (key \notin old /\ Cardinality(old) = lc.config.Capacity) =>
                       \E e \in old :
                           /\ \A k \in old : lc.cache[e].Expiration <= lc.cache[k].Expiration
                           /\ DOMAIN lc'.cache = (old \ {e}) \cup {key} ]_vars

\* the keys of MgrKeys a pattern of Patterns matches, read off the pattern:
\* "a" anywhere, "b" first, "b" last, the empty string; "(a" is no pattern
Denotes(pattern) ==
    IF pattern = <<97>> THEN { k \in MgrKeys : \E i \in 1..Len(k) : k[i] = 97 }
    ELSE IF pattern = <<Caret, 98>> THEN { k \in MgrKeys : Len(k) > 0 /\ k[1] = 98 }
    ELSE IF pattern = <<98, Dollar>> THEN { k \in MgrKeys : Len(k) > 0 /\ k[Len(k)] = 98 }
    ELSE IF pattern = <<Caret, Dollar>> THEN { <<>> }
    ELSE {}

\* C12: GetPolicy(k) returns the active policy exactly when k is in the
\* allow-set (added and not removed since) or matches a pattern that was
\* registered without an error, and none otherwise.
C12_Admission ==
    ret.op = "GetPolicy" =>
        ret.result = IF \/ ret.key \in truth.allow
                        \/ \E p \in truth.patterns : ret.key \in Denotes(p)
                     THEN [policy |-> mgr.policy]
                     ELSE None

\* GetPolicy admitted "ab" by a pattern alone, with other keys in the
\* allow-set
C12_Witness ==
    /\ ret.op = "GetPolicy" /\ ret.result # None
    /\ ret.key = <<97, 98>>
    /\ ret.key \notin truth.allow
    /\ truth.allow # {}

\* the number a string of decimal digits writes
RECURSIVE DecimalValue(_)
DecimalValue(d) ==
    IF Len(d) = 0 THEN 0
    ELSE 10 * DecimalValue(SubSeq(d, 1, Len(d) - 1)) + (d[Len(d)] - 48)

\* sk is K:shard:n, n written in decimal without leading zeros
IsShardKey(sk, K, n) ==
    LET pre == Len(K) + Len(ShardTag)
        d   == SubSeq(sk, pre + 1, Len(sk))
    IN  /\ Len(sk) > pre
        /\ SubSeq(sk, 1, Len(K)) = K
        /\ SubSeq(sk, Len(K) + 1, pre) = ShardTag
        /\ \A j \in 1..Len(d) : d[j] \in 48..57
        /\ Len(d) > 1 => d[1] # 48
        /\ DecimalValue(d) = n

\* C13: with S > 0 shards, Apply(Get) and Apply(Set) on key K return
\* original key K and shard keys K:shard:0 ... K:shard:(S-1), in that order.
C13_ShardKeys ==
    (ret.op \in {"Get", "Set"} /\ ks.config.Shards > 0) =>
        /\ ret.result.kind = IF ret.op = "Get" THEN "KeySplittingGetAction"
                             ELSE "KeySplittingSetAction"
        /\ ret.result.OriginalKey = ret.key
        /\ Len(ret.result.ShardKeys) = ks.config.Shards
        /\ \A i \in 1..ks.config.Shards :
              IsShardKey(ret.result.ShardKeys[i], ret.key, i - 1)

\* a Get of "a" over eleven shards, the last of them a:shard:10
C13_Witness ==
    /\ ret.op = "Get" /\ ret.key = <<97>> /\ ks.config.Shards = 11
    /\ ret.result.ShardKeys[11] = <<97>> \o ShardTag \o <<49, 48>>

C15_StopNotRunning ==
    [][ ret'.op = "Stop" =>
            /\ (eng # None /\ ~eng.isRunning) => (ret'.err # "nil" /\ eng' = eng)
            /\ eng = None => ret'.err = "KeyFlare is not initialized" ]_vars

\* C16: a successful Stop of a running engine leaves the same instance in
\* place, not running, and nothing but Shutdown clears the singleton.
C16_StopKeepsInstance ==
    [][ /\ (ret'.op = "Stop" /\ ret'.err = "nil" /\ eng # None /\ eng.isRunning)
            => (eng' # None /\ eng' = [eng EXCEPT !.isRunning = FALSE])
        /\ (eng # None /\ eng' = None) => ret'.op = "Shutdown" ]_vars

\* C17: GetInstance, and Wrap through it, returns the instance exactly
\* when one exists and is running, and fails with no handle otherwise.
C17_GetInstance ==
    /\ ret.op = "GetInstance" =>
          IF eng # None /\ eng.isRunning
          THEN ret.err = "nil" /\ ret.kf = eng.id
          ELSE ret.err # "nil" /\ ret.kf = None
    /\ ret.op = "Wrap" =>
          IF eng # None /\ eng.isRunning
          THEN ret.err = "nil" /\ ret.wrapper # None /\ ret.wrapper.kf = eng.id
          ELSE ret.err # "nil" /\ ret.wrapper = None

\* Wrap has failed on an instance that exists and is not running
C17_Witness ==
    /\ ret.op = "Wrap" /\ ret.err # "nil"
    /\ eng # None /\ ~eng.isRunning

\* the count of key k in a list of KeyCounts that holds k
CountOf(keys, k) == keys[CHOOSE i \in 1..Len(keys) : keys[i].Key = k].Count

\* the count prev_count is to hold for key k in the Add number idx: the
\* count of k in the latest earlier Add that had k, 0 if there is none
PrevCountOf(k, idx) ==
    LET earlier == { e \in 1..(idx - 1) : k \in KeysOf(truth[e]) }
    IN  IF earlier = {} THEN 0
        ELSE CountOf(truth[CHOOSE e \in earlier : \A e2 \in earlier : e2 <= e], k)

\* C18: after n Add calls a history of size H holds min(n, H) snapshots,
\* the most recent ones in the order they were added, and GetLatest
\* returns the snapshot of the last Add, or none when nothing was added.
C18_HistoryRing ==
    LET n == Len(truth)
        m == Min({n, hist.maxSize})
    IN  /\ Len(hist.snapshots) = m
        /\ \A j \in 1..m : hist.snapshots[j].keys = truth[n - m + j]
        /\ \A j \in 1..(m - 1) :
              hist.snapshots[j].timestamp < hist.snapshots[j + 1].timestamp
        /\ ret.op = "GetLatest" =>
              IF n = 0 THEN ret.result = None
              ELSE /\ ret.result # None
                   /\ ret.result.keys = truth[n]
                   /\ ret.result = hist.snapshots[m]

\* GetLatest after three different Adds to a history of size 2
C18_Witness ==
    /\ ret.op = "GetLatest" /\ hist.maxSize = 2 /\ Len(truth) = 3
    /\ truth[1] # truth[2] /\ truth[2] # truth[3] /\ truth[1] # truth[3]
    /\ ret.result.keys = truth[3]

\* C19: in every snapshot the prev_count of each of its keys is the count
\* the key had in the latest earlier Add that contained it, and 0 when no
\* earlier Add contained it.
C19_PrevCount ==
    LET n == Len(truth)
        m == Len(hist.snapshots)
    IN  \A j \in 1..m :
            LET snapshot == hist.snapshots[j]
            IN  /\ DOMAIN snapshot.keyMeta = KeysOf(snapshot.keys)
                /\ \A k \in KeysOf(snapshot.keys) :
                      snapshot.keyMeta[k].prevCount = PrevCountOf(k, n - m + j)

\* the last snapshot holds "a" with count 1 and prev_count 2, the count of
\* the Add before the previous one, which had no "a"
C19_Witness ==
    /\ Len(truth) = 3 /\ ret.op = "Add"
    /\ <<97>> \in KeysOf(truth[1]) /\ CountOf(truth[1], <<97>>) = 2
    /\ <<97>> \notin KeysOf(truth[2])
    /\ <<97>> \in KeysOf(truth[3]) /\ CountOf(truth[3], <<97>>) = 1
    /\ hist.snapshots[Len(hist.snapshots)].keyMeta[<<97>>].prevCount = 2

\* C20: with s1 and s2 the last two snapshots, the trend reported for a
\* key of s2 is "new" exactly when s1 has not the key, and otherwise
\* "rising", "falling" or "stable" as its count in s2 is above, below or
\* equal to its count in s1.
C20_Trend ==
    (ret.op = "handleHotKeys" /\ Len(truth) >= 2) =>
        LET s1 == truth[Len(truth) - 1]
        IN  \A i \in 1..Len(ret.Keys) :
                LET k  == ret.Keys[i].Key
                    c2 == ret.Keys[i].Count
                IN  ret.Keys[i].Trend =
                        IF k \notin KeysOf(s1) THEN "new"
                        ELSE IF c2 > CountOf(s1, k) THEN "rising"
                        ELSE IF c2 < CountOf(s1, k) THEN "falling"
                        ELSE "stable"

\* C21: a detector made by the public New with no detector options, or with
\* a DecayInterval that is not positive, decays every 60 seconds: an
\* Increment 60 s after the last decay decays, and none earlier does.
C21_DefaultDecayInterval ==
    ( /\ ret.op = "New"
      /\ \/ ret.options = None
         \/ IsNegative64(ret.options.DecayInterval)
         \/ IsZero64(ret.options.DecayInterval) )
    => /\ det.decayInterval = 60 \div TickSeconds
       /\ IncrementDecays(det, det.lastDecay + 60 \div TickSeconds)
       /\ ~IncrementDecays(det, det.lastDecay + 60 \div TickSeconds - 1)

\* C22: a Set whose SetRequest carries a TTL override t returns
\* CacheSet.TTL = t and stores the entry with Expiration = set time + t.
C22_TTLOverride ==
    (ret.op = "Set" /\ ret.override # None) =>
        /\ ret.result.TTL = ret.override.ttl
        /\ lc.cache[ret.key].Expiration = now + ret.override.ttl

\* C23: with TTL > 0 and a jitter j in [0, 1), the effective TTL of every
\* random draw lies in [TTL*(1-j), TTL*(1+j)], and equals TTL when j = 0.
C23_JitterRange ==
    ( /\ ret.op = "calculateTTLWithJitter"
      /\ lc.config.TTL > 0
      /\ lc.config.Jitter[1] >= 0
      /\ lc.config.Jitter[1] < lc.config.Jitter[2] )
    => LET TTL == lc.config.TTL
           jn  == lc.config.Jitter[1]
           jd  == lc.config.Jitter[2]
       IN  /\ ret.ttl[1] * jd >= TTL * (jd - jn) * ret.ttl[2]
           /\ ret.ttl[1] * jd <= TTL * (jd + jn) * ret.ttl[2]
           /\ jn = 0 => ret.ttl[1] = TTL * ret.ttl[2]

\* a draw of 0x7FFF...FF under a positive jitter: the effective TTL is the
\* upper end TTL*(1+j) of the range
C23_Witness ==
    /\ ret.op = "calculateTTLWithJitter"
    /\ lc.config.Jitter[1] > 0
    /\ ret.random[1] = 127 /\ ret.random[2] = 255
    /\ ret.ttl[1] * lc.config.Jitter[2]
         = lc.config.TTL * (lc.config.Jitter[2] + lc.config.Jitter[1]) * ret.ttl[2]

\* C24: RegisterPattern with a pattern that does not compile returns an
\* error and GetPolicy answers for every key as before the call; with a
\* pattern that compiles it returns no error and every key the pattern
\* matches is admitted afterwards.
C24_RegisterPattern ==
    [][ ret'.op = "RegisterPattern" =>
          IF ret'.pattern = <<LParen, 97>>
          THEN /\ ret'.err # "nil"
               /\ \A k \in MgrKeys : MgrGetPolicy(mgr', k) = MgrGetPolicy(mgr, k)
          ELSE /\ ret'.err = "nil"
               /\ \A k \in Denotes(ret'.pattern) :
                      MgrGetPolicy(mgr', k) = [policy |-> mgr'.policy] ]_vars

\* "(a" was refused by a manager that holds patterns and allow-list keys
C24_Witness ==
    /\ ret.op = "RegisterPattern" /\ ret.err # "nil"
    /\ ret.pattern = <<LParen, 97>>
    /\ DOMAIN mgr.patternRegexps # {}
    /\ DOMAIN mgr.whitelistKeys # {}

\* C25: policy.New with an initial pattern list that contains a pattern
\* that does not compile returns no error, and the manager has every valid
\* initial pattern and every initial allow-list key in effect.
C25_InitialPatterns ==
    ( /\ ret.op = "New"
      /\ ret.config.Type \in PolicyTypes
      /\ ret.config.Parameters = ret.config.Type
      /\ <<LParen, 97>> \in Range(ret.config.WhitelistPatterns) )
    => /\ ret.err = "nil"
       /\ mgr # None
       /\ \A k \in Range(ret.config.WhitelistKeys) : MgrGetPolicy(mgr, k) # None
       /\ \A p \in Range(ret.config.WhitelistPatterns) :
              \A k \in Denotes(p) : MgrGetPolicy(mgr, k) # None

\* the keys added so far that share the counter of key k in the 1-based row i
SharingRow(k, i) ==
    { k2 \in Keys : truth[k2] > 0 /\ Column(k2, i - 1, cms.width) = Column(k, i - 1, cms.width) }

\* C26 as stated: after any Adds, the estimate of every key that was never
\* added is 0.
C26_UnaddedIsZero ==
    \A k \in Keys : truth[k] = 0 => Estimate(cms, k) = 0

\* C26, amended: the estimate of a key that was never added is 0 when in
\* some row no added key shares its counter; otherwise it is positive, and
\* at most the amount added for the keys that share its counters.
C26_UnaddedZeroUnlessColliding ==
    \A k \in Keys :
        truth[k] = 0 =>
            /\ (\E i \in 1..cms.depth : SharingRow(k, i) = {}) <=> Estimate(cms, k) = 0
            /\ \A i \in 1..cms.depth : Estimate(cms, k) <= SumOver(truth, SharingRow(k, i))

\* Estimate gave 0 for a key never added while other keys were, and
\* another key never added has a positive estimate
C26_Witness ==
    /\ ret.op = "Estimate" /\ ret.result = 0
    /\ truth[ret.key] = 0
    /\ \E k \in Keys : truth[k] > 0
    /\ \E k \in Keys : truth[k] = 0 /\ Estimate(cms, k) > 0

\* C27: after Adds and TopKs, TopK(k) returns exactly min(k, size) items,
\* by count non-increasing, and they are the held items of highest count.
C27_TopKSorted ==
    ret.op = "TopK" =>
        LET r == ret.result
        IN  /\ Len(r) = Min({ ret.k, Len(ss.heap) })
            /\ \A i, j \in 1..Len(r) : i < j => r[i].Count >= r[j].Count
            /\ \A i, j \in 1..Len(r) : i # j => r[i].Key # r[j].Key
            /\ \A i \in 1..Len(r) :
                   /\ r[i].Key \in DOMAIN ss.items
                   /\ r[i].Count = SSCount(ss, r[i].Key)
            /\ \A key \in DOMAIN ss.items :
                   (\A i \in 1..Len(r) : r[i].Key # key) =>
                       \A i \in 1..Len(r) : r[i].Count >= SSCount(ss, key)

\* C28: Get and Set of the Redis wrapper, on any key and with any value
\* type stored through Set before, return a command obtained from the
\* backend or from the cache, without a panic and without an error the
\* backend did not produce.
C28_PolicyPathNeverFatal ==
    ret.op \in { "Get", "Set" } =>
        /\ ret.result.kind = "cmd"
        /\ ret.result.from \in { "backend", "cache" }
        /\ ret.result.err # "nil" => ret.result.from = "backend"

C30_MinHeapOrder ==
    /\ \A i \in 2..Len(ss.heap) :
          ss.mem[ss.heap[i \div 2]].Count <= ss.mem[ss.heap[i]].Count
    /\ Len(ss.heap) > 0 => ss.mem[ss.heap[1]].Count = MinHeld(ss)
    /\ (ret.op = "Add" /\ ret.branch = "replace") =>
          ss.mem[ss.items[ret.key]].Error = ret.minBefore

\* C31: under Add, TopK, Count and Decay every held item's Index is its
\* 0-based position in the heap, and the key map and the heap hold exactly
\* the same items.
C31_IndexInvariant ==
    /\ \A i \in 1..Len(ss.heap) : ss.mem[ss.heap[i]].Index = i - 1
    /\ { ss.items[k] : k \in DOMAIN ss.items } = Range(ss.heap)
    /\ Cardinality(DOMAIN ss.items) = Len(ss.heap)
    /\ \A k \in DOMAIN ss.items : ss.mem[ss.items[k]].Key = k

\* C32: an Increment(key, n) at least decay_interval after last_decay scales
\* every counter of the sketch by decay_factor once, sets last_decay to now
\* and adds n in full afterwards, so GetCount(key) >= n; an Increment that
\* comes earlier scales nothing and leaves last_decay alone.
C32_DecayBeforeAdd ==
    [][ ret'.op = "Increment" =>
          LET due  == now - det.lastDecay >= det.decayInterval
              n    == ret'.count
              own(i, j) == j = Column(ret'.key, i - 1, cms.width) + 1
              base(i, j) == IF due THEN Scale(cms.matrix[i][j], det.config.DecayFactor)
                            ELSE cms.matrix[i][j]
          IN  /\ ret'.decayed = due
              /\ \A i \in 1..cms.depth : \A j \in 1..cms.width :
                     cms'.matrix[i][j] = base(i, j) + (IF own(i, j) THEN n ELSE 0)
              /\ det'.lastDecay = IF due THEN now ELSE det.lastDecay
              /\ GetCount(cms', ret'.key) >= n ]_vars

\* an Increment came two intervals or more after the last decay and decayed:
\* the earlier count of its key was scaled once and its own amount was not
C32_Witness ==
    /\ ret.op = "Increment" /\ ret.decayed
    /\ ret.since >= 2 * det.decayInterval
    /\ det.lastDecay = now
    /\ truth[ret.key] > ret.count
    /\ GetCount(cms, ret.key) = Scale(truth[ret.key] - ret.count, det.config.DecayFactor) + ret.count
    /\ GetCount(cms, ret.key) > ret.count

\* C33: every entry of the local cache has RefreshAt <= Expiration, for
\* any refresh_ahead in (0, 1] and whatever the clock does within a Set.
C33_RefreshBeforeExpiration ==
    \A k \in DOMAIN lc.cache : lc.cache[k].RefreshAt <= lc.cache[k].Expiration

\* C34: under any interleaving of Apply(Get) and Apply(Set), whenever no
\* call holds the cache lock the size counter is the number of entries of
\* the cache map, and is never negative.
C34_SizeIsEntryCount ==
    /\ lc.size = Cardinality(DOMAIN lc.cache)
    /\ lc.size >= 0

\* C35: a Get of k that starts after Set(k, v) has returned, and returns no
\* later than the expiration of v, returns CacheHit with v unless k was
\* evicted for capacity, whatever other Gets are in flight.
C35_SetSurvivesConcurrentGet ==
    ( /\ ret.op = "Get"
      /\ ret.last # None
      /\ truth[ret.key] = ret.last
      /\ now <= ret.last.Expiration )
    => /\ ret.result.kind = "CacheHit"
       /\ ret.result.Value = ret.last.value

\* C36: GetCount, TopK and IsHot, which take the read side of the detector
\* lock, write nothing of the detector, the sketch or the Space-Saving
\* structure, the Index of its items included.
C36_ReadersWriteNothing ==
    [][ ret'.op \in { "GetCount", "TopK", "IsHot" } =>
            /\ det' = det
            /\ cms' = cms
            /\ ss' = ss ]_vars

\* C37: during every running period of the collector (after each Start,
\* also one that follows an earlier Stop) the collection task of that
\* period keeps running until the next Stop, and every tick it has taken
\* is followed by exactly one Add of the detector's TopK to the history.
C37_CollectsWhileRunning ==
    (truth.running /\ srv.detector # None) =>
        /\ srv.tasks[Len(srv.tasks)] # "done"
        /\ truth.adds + Cardinality({ g \in 1..Len(srv.tasks) : srv.tasks[g] = "collect" })
               = truth.ticks

\* C38: once Stop has returned, with or without an error, no collection
\* goroutine is left running and no snapshot is appended to the history.
C38_NothingRunsAfterStop ==
    truth.returned => /\ LiveTasks(srv) = {}
                      /\ ~truth.late


\* C39: no sequence of Start and Stop calls closes the collector's stop
\* channel a second time: a Stop that follows a Stop that failed on the
\* server shutdown does not panic.
C39_StopChanClosedOnce ==
    ret.op = "Stop" => ret.err # "panic: close of closed channel"


\* C40: GetTimeSeries(keys, max_points) returns the last
\* min(max_points, history size) snapshots in order; each point gives every
\* requested key its count in that snapshot, 0 if absent; the rate of a key
\* is 0 at the first point and at each later point
\* max(0, count_i - count_(i-1)) over the seconds between the two snapshots.
C40_TimeSeries ==
    ret.op = "GetTimeSeries" =>
        LET n == Len(hist.snapshots)
            m == IF ret.maxPoints < n THEN ret.maxPoints ELSE n
            snap(i) == hist.snapshots[n - m + i]
            countIn(i, key) ==
                IF \E j \in 1..Len(snap(i).keys) : snap(i).keys[j].Key = key
                THEN snap(i).keys[CHOOSE j \in 1..Len(snap(i).keys) :
                                      snap(i).keys[j].Key = key].Count
                ELSE 0
        IN  /\ Len(ret.result) = m
            /\ \A i \in 1..m :
                /\ ret.result[i].Timestamp = snap(i).timestamp
                /\ DOMAIN ret.result[i].Keys = Range(ret.keys)
                /\ DOMAIN ret.result[i].Rates = Range(ret.keys)
                /\ \A key \in Range(ret.keys) :
                    /\ ret.result[i].Keys[key] = countIn(i, key)
                    /\ LET rate == ret.result[i].Rates[key]
                       IN  /\ rate[2] > 0
                           /\ IF i = 1 THEN rate[1] = 0
                              ELSE LET diff == countIn(i, key) - countIn(i - 1, key)
                                       secs == snap(i).timestamp - snap(i - 1).timestamp
                                   IN  rate[1] * secs
                                           = (IF diff > 0 THEN diff ELSE 0) * rate[2]

\* a series cut to the last two of three snapshots, taken two seconds
\* apart, in which one key fell, one rose and one is absent from a snapshot
C40_Witness ==
    /\ ret.op = "GetTimeSeries"
    /\ Len(hist.snapshots) = 3 /\ ret.maxPoints = 2
    /\ Len(ret.result) = 2
    /\ ret.result[2].Interval = 2
    /\ Len(ret.keys) = 2
    /\ \E k1, k2 \in Range(ret.keys) :
        /\ ret.result[2].Keys[k1] < ret.result[1].Keys[k1]
        /\ ret.result[2].Rates[k1][1] = 0
        /\ ret.result[1].Keys[k2] = 0
        /\ \A j \in 1..Len(hist.snapshots[2].keys) : hist.snapshots[2].keys[j].Key # k2
        /\ ret.result[2].Keys[k2] = 1
        /\ ret.result[2].Rates[k2] = <<1, 2>>

=============================================================================
